---------------------------- MODULE Spec2Model ----------------------------
(***************************************************************************)
(* A model of the text pipeline of wp-codex-rag:                           *)
(*   core/helpers/semantic_chunker.py  (SemanticChunker)                   *)
(*   core/helpers/html_cleaner.py      (HTMLCleaner)                       *)
(* A text is a sequence of characters, one string per character, so that   *)
(* len(), slicing,                                                         *)
(* str.strip, str.split, str.replace and the regular expressions of the    *)
(* source are computed character by character as Python computes them.     *)
(***************************************************************************)
EXTENDS Integers, Sequences, FiniteSets, TLC

(***************************************************************************)
(* Python string primitives                                                *)
(***************************************************************************)

\* str.isspace() for the characters the model's texts are made of
Whitespace == {" ", "\n", "\t"}

IsSpace(c) == c \in Whitespace

Min(S) == CHOOSE i \in S : \A j \in S : i <= j

\* the least index i >= from with s[i] \in cs, or 0 when there is none
FindChar(s, from, cs) ==
    IF \E i \in from..Len(s) : s[i] \in cs
    THEN CHOOSE i \in from..Len(s) :
             s[i] \in cs /\ \A j \in from..(i - 1) : s[j] \notin cs
    ELSE 0

\* the least index i >= from with s[i] \notin cs, or 0 when there is none
FindNotChar(s, from, cs) ==
    IF \E i \in from..Len(s) : s[i] \notin cs
    THEN CHOOSE i \in from..Len(s) :
             s[i] \notin cs /\ \A j \in from..(i - 1) : s[j] \in cs
    ELSE 0

\* s[i:i+len(p)] == p
MatchAt(s, i, p) ==
    /\ i >= 1
    /\ i + Len(p) - 1 <= Len(s)
    /\ \A k \in 1..Len(p) : s[i + k - 1] = p[k]

\* str.find(p, from): the least index i >= from where p occurs, or 0
Find(s, from, p) ==
    LET hits == {i \in from..(Len(s) - Len(p) + 1) : MatchAt(s, i, p)}
    IN  IF hits = {} THEN 0 ELSE Min(hits)

\* str.startswith
StartsWith(s, p) == MatchAt(s, 1, p)

\* p in s
Contains(s, p) == Find(s, 1, p) # 0

\* str.lstrip(cs)
LStrip(s, cs) ==
    LET i == FindNotChar(s, 1, cs)
    IN  IF i = 0 THEN <<>> ELSE SubSeq(s, i, Len(s))

\* str.rstrip(cs)
RStrip(s, cs) ==
    LET keep == {i \in 1..Len(s) : s[i] \notin cs}
    IN  IF keep = {} THEN <<>>
        ELSE SubSeq(s, 1, Len(s) + 1 - Min({Len(s) + 1 - i : i \in keep}))

\* str.strip()
Strip(s) == RStrip(LStrip(s, Whitespace), Whitespace)

\* str.count(c) for a single character c
Count(s, c) == Cardinality({i \in 1..Len(s) : s[i] = c})

RECURSIVE SplitFrom(_, _, _)
\* str.split(sep) from index `from` on: the pieces between the
\* non-overlapping occurrences of sep, found left to right
SplitFrom(s, from, sep) ==
    LET i == Find(s, from, sep)
    IN  IF i = 0 THEN <<SubSeq(s, from, Len(s))>>
        ELSE <<SubSeq(s, from, i - 1)>> \o SplitFrom(s, i + Len(sep), sep)

Split(s, sep) == SplitFrom(s, 1, sep)

RECURSIVE ReplaceFrom(_, _, _, _)
\* str.replace(old, new) from index `from` on (old is never empty here)
ReplaceFrom(s, from, old, new) ==
    LET i == Find(s, from, old)
    IN  IF i = 0 THEN SubSeq(s, from, Len(s))
        ELSE SubSeq(s, from, i - 1) \o new \o ReplaceFrom(s, i + Len(old), old, new)

Replace(s, old, new) == ReplaceFrom(s, 1, old, new)

RECURSIVE Digits(_)
\* str(n) for n >= 0, as the f-string formats the index of a placeholder
Digits(n) ==
    LET d == <<"0", "1", "2", "3", "4", "5", "6", "7", "8", "9">>
    IN  IF n < 10 THEN <<d[n + 1]>> ELSE Digits(n \div 10) \o <<d[(n % 10) + 1]>>

RECURSIVE Join(_, _)
\* sep.join(parts)
Join(parts, sep) ==
    IF parts = <<>> THEN <<>>
    ELSE IF Len(parts) = 1 THEN parts[1]
    ELSE parts[1] \o sep \o Join(Tail(parts), sep)

(***************************************************************************)
(* SemanticChunker: code extraction                                        *)
(***************************************************************************)

\* The backtick character (U+0060).  A TLA+ string cannot hold it, so the
\* model writes it as the one-character token "bq".
Backtick == "bq"

Fence == <<Backtick, Backtick, Backtick>>

\* mutant: a placeholder that does not carry the index of its block
PlaceholderWithoutIndex(n) ==
    <<"_", "_", "C", "O", "D", "E", "_", "B", "L", "O", "C", "K", "_", "_">>

\* f"__CODE_BLOCK_{n}__"
CodeBlockPlaceholder(n) ==
    <<"_", "_", "C", "O", "D", "E", "_", "B", "L", "O", "C", "K", "_">>
        \o Digits(n) \o <<"_", "_">>

\* f"__INLINE_CODE_{n}__"
InlineCodePlaceholder(n) ==
    <<"_", "_", "I", "N", "L", "I", "N", "E", "_", "C", "O", "D", "E", "_">>
        \o Digits(n) \o <<"_", "_">>

\* The first alternative of code_pattern, ```([^`]*?)```, tried at index b:
\* the index of the last character of the match, or 0 when it does not match.
MultilineMatchEnd(s, b) ==
    IF ~MatchAt(s, b, Fence) THEN 0
    ELSE LET j == FindChar(s, b + 3, {Backtick})
         IN  IF j # 0 /\ MatchAt(s, j, Fence) THEN j + 2 ELSE 0

\* mutant: an inline alternative that runs over the end of a line
InlineMatchAcrossLines(s, b) ==
    IF b > Len(s) \/ s[b] # Backtick THEN 0
    ELSE LET j == FindChar(s, b + 1, {Backtick})
         IN  IF j # 0 /\ j > b + 1 THEN j ELSE 0

\* The second alternative, `([^`\n]+)`, tried at index b.
InlineMatchEnd(s, b) ==
    IF b > Len(s) \/ s[b] # Backtick THEN 0
    ELSE LET j == FindChar(s, b + 1, {Backtick, "\n"})
         IN  IF j # 0 /\ s[j] = Backtick /\ j > b + 1 THEN j ELSE 0

\* replace_code_block(match): the record appended to code_blocks for the
\* match s[b..e], given that len(code_blocks) = n
replace_code_block(s, b, e, n) ==
    IF StartsWith(SubSeq(s, b, e), Fence)
    THEN [content     |-> Fence \o SubSeq(s, b + 3, e - 3) \o Fence,
          placeholder |-> CodeBlockPlaceholder(n),
          type        |-> "multiline"]
    ELSE [content     |-> <<Backtick>> \o SubSeq(s, b + 1, e - 1) \o <<Backtick>>,
          placeholder |-> InlineCodePlaceholder(n),
          type        |-> "inline"]

RECURSIVE SubCode(_, _, _, _)
\* re.sub(code_pattern, replace_code_block, text) from index pos on: the scan
\* goes left to right, tries the multi-line alternative before the inline one
\* at each index and resumes after the end of a match.
SubCode(s, pos, blocks, out) ==
    LET b == FindChar(s, pos, {Backtick})
    IN  IF b = 0
        THEN [code_blocks |-> blocks, text |-> out \o SubSeq(s, pos, Len(s))]
        ELSE LET m == MultilineMatchEnd(s, b)
                 e == IF m # 0 THEN m ELSE InlineMatchEnd(s, b)
             IN  IF e = 0
                 THEN SubCode(s, b + 1, blocks, out \o SubSeq(s, pos, b))
                 ELSE LET blk == replace_code_block(s, b, e, Len(blocks))
                      IN  SubCode(s, e + 1, Append(blocks, blk),
                                  out \o SubSeq(s, pos, b - 1) \o blk.placeholder)

\* _extract_code_blocks(text) -> (code_blocks, text_with_placeholders)
extract_code_blocks(text) == SubCode(text, 1, <<>>, <<>>)

\* mutant: the spans are recorded and the text is left as it is
RecordWithoutReplacing(text) ==
    [code_blocks |-> extract_code_blocks(text).code_blocks, text |-> text]

\* _remove_code_blocks(text)
remove_code_blocks(text) == extract_code_blocks(text)

(***************************************************************************)
(* SemanticChunker: heading structure                                      *)
(***************************************************************************)

\* One iteration of the loop over lines in _parse_heading_structure.
\* st = [sections, current_section], current_section = <<>> standing for None
\* and <<sec>> for a section.
ParseLine(st, raw) ==
    LET line == Strip(raw)
    IN  IF line = <<>> THEN st
        ELSE IF StartsWith(line, <<"#", "#">>)
        THEN [sections |-> st.sections \o st.current_section,
              current_section |->
                  << [level   |-> Count(line, "#"),
                      title   |-> Strip(LStrip(line, {"#"})),
                      content |-> line \o <<"\n">>] >>]
        ELSE IF st.current_section # <<>>
        THEN [st EXCEPT !.current_section[1].content = @ \o line \o <<"\n">>]
        ELSE IF st.sections = <<>> \/ st.sections[Len(st.sections)].level # 0
        THEN [st EXCEPT !.sections =
                  Append(@, [level   |-> 0,
                             title   |-> <<"I", "n", "t", "r", "o", "d", "u", "c",
                                           "t", "i", "o", "n">>,
                             content |-> line \o <<"\n">>])]
        ELSE [st EXCEPT !.sections[Len(st.sections)].content = @ \o line \o <<"\n">>]

RECURSIVE ParseLines(_, _, _)
ParseLines(st, lines, i) ==
    IF i > Len(lines) THEN st ELSE ParseLines(ParseLine(st, lines[i]), lines, i + 1)

\* _parse_heading_structure(text) -> sections
parse_heading_structure(text) ==
    LET st == ParseLines([sections |-> <<>>, current_section |-> <<>>],
                         Split(text, <<"\n">>), 1)
    IN  st.sections \o st.current_section


(***************************************************************************)
(* SemanticChunker: splitting a section                                    *)
(***************************************************************************)

SentenceEnd == {".", "!", "?"}

\* a match of (?<=[.!?])\s+ starts at index i
SentenceBreakAt(s, i) == i >= 2 /\ s[i - 1] \in SentenceEnd /\ IsSpace(s[i])

RECURSIVE SplitConsumingTerminator(_, _)
\* mutant: the split consumes the '.', '!' or '?' together with the whitespace
SplitConsumingTerminator(s, from) ==
    LET hits == {i \in from..Len(s) : SentenceBreakAt(s, i)}
    IN  IF hits = {} THEN <<SubSeq(s, from, Len(s))>>
        ELSE LET b == Min(hits)
                 n == FindNotChar(s, b, Whitespace)
                 e == IF n = 0 THEN Len(s) + 1 ELSE n
             IN  <<SubSeq(s, from, b - 2)>> \o SplitConsumingTerminator(s, e)

RECURSIVE SentenceSplitFrom(_, _)
\* re.split(r"(?<=[.!?])\s+", text) from index `from` on: the text is cut at
\* every whitespace run that follows '.', '!' or '?'; the run is dropped
SentenceSplitFrom(s, from) ==
    LET hits == {i \in from..Len(s) : SentenceBreakAt(s, i)}
    IN  IF hits = {} THEN <<SubSeq(s, from, Len(s))>>
        ELSE LET b == Min(hits)
                 n == FindNotChar(s, b, Whitespace)
                 e == IF n = 0 THEN Len(s) + 1 ELSE n
             IN  <<SubSeq(s, from, b - 1)>> \o SentenceSplitFrom(s, e)

RECURSIVE PackSentences(_, _, _, _)
\* the loop of _chunk_by_sentences over sentences[i..]:
\* st = [chunks, current_chunk]
PackSentences(st, sentences, i, max_size) ==
    IF i > Len(sentences) THEN st
    ELSE LET sentence == Strip(sentences[i])
             cur == st.current_chunk
             nxt == IF sentence = <<>> THEN st
                    ELSE IF cur # <<>> /\ Len(cur) + Len(sentence) + 1 > max_size
                    THEN [chunks |-> Append(st.chunks, Strip(cur)),
                          current_chunk |-> sentence]
                    ELSE IF cur # <<>>
                    THEN [st EXCEPT !.current_chunk = cur \o <<" ">> \o sentence]
                    ELSE [st EXCEPT !.current_chunk = sentence]
         IN  PackSentences(nxt, sentences, i + 1, max_size)

\* _chunk_by_sentences(text, max_size)
chunk_by_sentences(text, max_size) ==
    LET st == PackSentences([chunks |-> <<>>, current_chunk |-> <<>>],
                            SentenceSplitFrom(text, 1), 1, max_size)
    IN  IF st.current_chunk # <<>>
        THEN Append(st.chunks, Strip(st.current_chunk))
        ELSE st.chunks

RECURSIVE StripNonEmpty(_, _)
\* [p.strip() for p in parts[i..] if p.strip()]
StripNonEmpty(parts, i) ==
    IF i > Len(parts) THEN <<>>
    ELSE LET p == Strip(parts[i])
         IN  (IF p = <<>> THEN <<>> ELSE <<p>>) \o StripNonEmpty(parts, i + 1)

RECURSIVE EachParagraphAlone(_, _, _, _)
\* mutant: a loop that emits the buffer before every paragraph
EachParagraphAlone(st, paragraphs, i, max_size) ==
    IF i > Len(paragraphs) THEN st
    ELSE EachParagraphAlone(
             [chunks |-> IF st.current_chunk = <<>> THEN st.chunks
                         ELSE Append(st.chunks, st.current_chunk),
              current_chunk |-> paragraphs[i]],
             paragraphs, i + 1, max_size)

RECURSIVE PackParagraphs(_, _, _, _)
\* the first loop of _chunk_by_paragraphs over paragraphs[i..]
PackParagraphs(st, paragraphs, i, max_size) ==
    IF i > Len(paragraphs) THEN st
    ELSE LET paragraph == paragraphs[i]
             cur == st.current_chunk
             nxt == IF cur # <<>> /\ Len(cur) + Len(paragraph) + 2 > max_size
                    THEN [chunks |-> Append(st.chunks, Strip(cur)),
                          current_chunk |-> paragraph]
                    ELSE IF cur # <<>>
                    THEN [st EXCEPT !.current_chunk =
                              cur \o <<"\n", "\n">> \o paragraph]
                    ELSE [st EXCEPT !.current_chunk = paragraph]
         IN  PackParagraphs(nxt, paragraphs, i + 1, max_size)

RECURSIVE SplitLarge(_, _, _)
\* the second loop of _chunk_by_paragraphs: a chunk still longer than
\* max_size is split by sentences
SplitLarge(chunks, i, max_size) ==
    IF i > Len(chunks) THEN <<>>
    ELSE (IF Len(chunks[i]) > max_size
          THEN chunk_by_sentences(chunks[i], max_size)
          ELSE <<chunks[i]>>) \o SplitLarge(chunks, i + 1, max_size)

\* _chunk_by_paragraphs(text, max_size)
chunk_by_paragraphs(text, max_size) ==
    LET paragraphs == StripNonEmpty(Split(text, <<"\n", "\n">>), 1)
        st == PackParagraphs([chunks |-> <<>>, current_chunk |-> <<>>],
                             paragraphs, 1, max_size)
        chunks == IF st.current_chunk # <<>>
                  THEN Append(st.chunks, Strip(st.current_chunk))
                  ELSE st.chunks
    IN  SplitLarge(chunks, 1, max_size)

\* mutant: a section is never split
ProcessVerbatim(section) == <<Strip(section.content)>>

\* mutant: every heading level is given the ceilings of level 2
ProcessAsLevelTwo(section) ==
    LET content == Strip(section.content)
    IN  IF content = <<>> THEN <<>>
        ELSE IF Len(content) <= 2000 THEN <<content>>
        ELSE chunk_by_paragraphs(content, 1500)

\* _process_section(section) -> the chunks of one section
process_section(section) ==
    LET content == Strip(section.content)
    IN  IF content = <<>> THEN <<>>
        ELSE IF section.level = 0 THEN chunk_by_paragraphs(content, 1500)
        ELSE IF section.level = 1 THEN chunk_by_paragraphs(content, 2000)
        ELSE IF section.level = 2
        THEN IF Len(content) <= 2000 THEN <<content>>
             ELSE chunk_by_paragraphs(content, 1500)
        ELSE IF section.level = 3
        THEN IF Len(content) <= 1500 THEN <<content>>
             ELSE chunk_by_paragraphs(content, 1200)
        ELSE IF Len(content) <= 1000 THEN <<content>>
             ELSE chunk_by_paragraphs(content, 800)

(***************************************************************************)
(* SemanticChunker: code restoration and final validation                  *)
(***************************************************************************)

RECURSIVE RestoreChunk(_, _, _)
\* the inner loop of _merge_code_blocks: every placeholder of code_map, in
\* insertion order, is replaced in the chunk
RestoreChunk(chunk, code_blocks, k) ==
    IF k > Len(code_blocks) THEN chunk
    ELSE RestoreChunk(Replace(chunk, code_blocks[k].placeholder,
                              code_blocks[k].content),
                      code_blocks, k + 1)

\* _merge_code_blocks(chunks, code_blocks)
merge_code_blocks(chunks, code_blocks) ==
    IF code_blocks = <<>> THEN chunks
    ELSE [i \in 1..Len(chunks) |-> RestoreChunk(chunks[i], code_blocks, 1)]

\* [c.strip() for c in cs]
Trimmed(cs) == [j \in 1..Len(cs) |-> Strip(cs[j])]

RECURSIVE ValidateWithCeiling(_, _)
\* mutant: a validation that also skips a chunk longer than 2000 characters
ValidateWithCeiling(chunks, i) ==
    IF i > Len(chunks) THEN <<>>
    ELSE LET chunk == Strip(chunks[i])
         IN  (IF Len(chunk) < 50 \/ Len(chunk) > 2000 THEN <<>> ELSE <<chunk>>)
                 \o ValidateWithCeiling(chunks, i + 1)

RECURSIVE ValidateFrom(_, _)
\* _validate_chunk_sizes(chunks[i..]): a chunk is trimmed; an empty one and
\* one shorter than 50 characters are skipped; a long one is only logged
ValidateFrom(chunks, i) ==
    IF i > Len(chunks) THEN <<>>
    ELSE LET chunk == Strip(chunks[i])
         IN  (IF chunk = <<>> THEN <<>>
              ELSE IF Len(chunk) < 50 THEN <<>>
              ELSE <<chunk>>) \o ValidateFrom(chunks, i + 1)

\* mutant: _validate_chunk_sizes without its size floor
ValidateNoFloor(chunks) == SelectSeq(Trimmed(chunks), LAMBDA ch : ch # <<>>)

validate_chunk_sizes(chunks) == ValidateFrom(chunks, 1)

\* line 41: not text.strip()
\* mutant: only the empty string returns at once
IsEmpty(text) == text = <<>>

IsBlank(text) == Strip(text) = <<>>

\* line 56: chunks.extend(section_chunks)
\* mutant: the chunks of a section are put in front of the earlier ones
Prepend(chunks, section_chunks) == section_chunks \o chunks

Extend(chunks, section_chunks) == chunks \o section_chunks

\* chunk_text(text), as one function: the steps the actions below take
chunk_text(text) ==
    IF IsBlank(text) THEN <<>>
    ELSE LET x == remove_code_blocks(text)
             sections == parse_heading_structure(x.text)
             RECURSIVE Chunks(_)
             Chunks(i) == IF i > Len(sections) THEN <<>>
                          ELSE Extend(process_section(sections[i]), Chunks(i + 1))
         IN  validate_chunk_sizes(merge_code_blocks(Chunks(1), x.code_blocks))


(***************************************************************************)
(* Input texts                                                             *)
(***************************************************************************)

\* n copies of the character c
Fill(c, n) == [k \in 1..n |-> c]

RECURSIVE Repeat(_, _)
\* s * n
Repeat(s, n) == IF n = 0 THEN <<>> ELSE s \o Repeat(s, n - 1)

\* "Alpha beta gamma. " : one 18-character sentence with its separator
Sentence ==
    <<"A", "l", "p", "h", "a", " ", "b", "e", "t", "a", " ", "g", "a", "m",
      "m", "a", ".", " ">>

\* a sentence of n + 2 characters: n letters, '.', ' '
LongSentence(c, n) == Fill(c, n) \o <<".", " ">>

\* the short building blocks of the input texts
Blocks ==
    << \* 1: a level-2 section shorter than the size floor
       <<"#", "#", " ", "A", "\n", "s", "h", "o", "r", "t", "\n">>,
       \* 2: a level-2 section of four sentences
       <<"#", "#", " ", "B", "\n">> \o Repeat(Sentence, 4) \o <<"\n">>,
       \* 3: a blank line, then a level-3 section of two paragraphs
       <<"\n", "#", "#", "#", " ", "C", "\n">> \o Repeat(Sentence, 2)
           \o <<"\n", "\n">> \o Repeat(Sentence, 2) \o <<"\n">>,
       \* 4: text without a heading, with an inline code span
       Repeat(Sentence, 3) \o <<Backtick, "x", Backtick, " ">> \o Sentence \o <<"\n">>,
       \* 5: a line that starts with a single '#'
       <<"#", " ", "T", "\n">> \o Repeat(Sentence, 3) \o <<"\n">>,
       \* 6: a fenced code block on a line of its own
       Fence \o <<"p", "r", "i", "n", "t", "(", "1", ")">> \o Fence \o <<"\n">>,
       \* 7: whitespace only
       <<" ", "\t", "\n">>,
       \* 8: a fenced block whose code reads like the placeholder of the next
       \*    span, then an inline span
       Fence \o InlineCodePlaceholder(1) \o Fence \o <<" ", Backtick, "y", Backtick, " ">>
           \o Repeat(Sentence, 3) \o <<"\n">>,
       \* 9: a level-4 section with a fenced block inside a sentence
       <<"#", "#", "#", "#", " ", "D", "\n", "T", "h", "i", "s", " ", "h", "a", "s", " ">>
           \o Fence \o <<"p", "r", "i", "n", "t", "(", "1", ")">> \o Fence
           \o <<" ", "a", "n", "d", " ">> \o Repeat(Sentence, 3) \o <<"\n">>,
       \* 10: a fenced block holding a heading-like line, a blank line and
       \*     the end of a sentence
       Fence \o <<"\n", "#", "#", " ", "Z", "\n", "\n", "e", "n", "d", ".", " ", "x">>
           \o Fence \o <<"\n">>
    >>

\* the largest number of short blocks in an input text
MaxBlocks == 2

RECURSIVE Concat(_, _)
\* the text made of the blocks ids[i..]
Concat(ids, i) == IF i > Len(ids) THEN <<>> ELSE Blocks[ids[i]] \o Concat(ids, i + 1)

\* the texts made of at most MaxBlocks short blocks
ShortTexts ==
    {Concat(ids, 1) :
        ids \in UNION {[1..n -> 1..Len(Blocks)] : n \in 0..MaxBlocks}}

\* the headings put before a long body
Headings ==
    { <<>>,
      <<"#", "#", " ", "L", "\n">>,
      <<"#", "#", "#", " ", "M", "\n">>,
      <<"#", "#", "#", "#", " ", "N", "\n">> }

\* bodies around the size ceilings of _process_section
LongBodies ==
    { Repeat(LongSentence("p", 280), 4),
      Repeat(LongSentence("q", 420), 4),
      Repeat(LongSentence("r", 480), 5),
      Fill("x", 2000),
      Repeat(LongSentence("z", 497), 3) \o Fill("z", 497) \o <<".">>,
      Fence \o Fill("c", 2000) \o Fence }

\* a long body under each heading, alone or after a short section
LongTexts ==
    {pre \o h \o b \o <<"\n">> :
        pre \in {<<>>, Blocks[1]}, h \in Headings, b \in LongBodies}

\* the input texts of a single call
Inputs == ShortTexts \cup LongTexts

(***************************************************************************)
(* HTMLCleaner: the document tree of BeautifulSoup                         *)
(*                                                                         *)
(* clean_html parses html_content with bs4 and converts the tree in place. *)
(* The tree is a table of nodes.  A node is known by its index in the      *)
(* table, as a Python object is by its identity, so the list that find_all *)
(* returned before a loop still names the nodes the loop has detached.     *)
(* Node 1 is the BeautifulSoup object; parent 0 is None.                   *)
(***************************************************************************)

\* a Tag
TagNode(name, class, href, parent, children) ==
    [kind |-> "tag", name |-> name, class |-> class, href |-> href,
     text |-> <<>>, parent |-> parent, children |-> children]

\* a NavigableString
StringNode(text, parent) ==
    [kind |-> "text", name |-> <<>>, class |-> <<>>, href |-> <<>>,
     text |-> text, parent |-> parent, children |-> <<>>]

RECURSIVE DescendantsFrom(_, _, _)
\* the nodes below the nodes kids[i..], in document order
DescendantsFrom(nodes, kids, i) ==
    IF i > Len(kids) THEN <<>>
    ELSE <<kids[i]>> \o DescendantsFrom(nodes, nodes[kids[i]].children, 1)
                     \o DescendantsFrom(nodes, kids, i + 1)

\* Tag.descendants
Descendants(nodes, n) == DescendantsFrom(nodes, nodes[n].children, 1)

\* Tag.find_all(names): the tags below n with one of the names, in document
\* order, as a list made before the caller's loop starts
find_all(nodes, n, names) ==
    SelectSeq(Descendants(nodes, n),
              LAMBDA m : nodes[m].kind = "tag" /\ nodes[m].name \in names)

\* Tag.find_all(names, class_=classes): the class attribute holds one of
\* the classes
find_all_class(nodes, n, names, classes) ==
    SelectSeq(find_all(nodes, n, names),
              LAMBDA m : \E k \in 1..Len(nodes[m].class) : nodes[m].class[k] \in classes)

RECURSIVE ConcatText(_, _, _)
ConcatText(nodes, ids, i) ==
    IF i > Len(ids) THEN <<>>
    ELSE nodes[ids[i]].text \o ConcatText(nodes, ids, i + 1)

\* PageElement.get_text(): the strings below n, concatenated
get_text(nodes, n) ==
    IF nodes[n].kind = "text" THEN nodes[n].text
    ELSE ConcatText(nodes, Descendants(nodes, n), 1)

\* the position of n among the children of its parent
IndexIn(children, n) == CHOOSE k \in 1..Len(children) : children[k] = n

\* PageElement.replace_with(text): a new string takes the place of n in its
\* parent and n is detached; n without a parent raises ValueError
replace_with(soup, n, text) ==
    IF soup.raised THEN soup
    ELSE IF soup.nodes[n].parent = 0 THEN [soup EXCEPT !.raised = TRUE]
    ELSE LET p == soup.nodes[n].parent
             new == Len(soup.nodes) + 1
             k == IndexIn(soup.nodes[p].children, n)
         IN  [soup EXCEPT !.nodes =
                 Append([@ EXCEPT ![n].parent = 0, ![p].children[k] = new],
                        StringNode(text, p))]

\* Tag.unwrap(): the children of n take its place in its parent; n without
\* a parent raises ValueError
unwrap(soup, n) ==
    IF soup.raised THEN soup
    ELSE IF soup.nodes[n].parent = 0 THEN [soup EXCEPT !.raised = TRUE]
    ELSE LET p == soup.nodes[n].parent
             kids == soup.nodes[n].children
             sibs == soup.nodes[p].children
             k == IndexIn(sibs, n)
         IN  [soup EXCEPT !.nodes =
                 [m \in 1..Len(@) |->
                     IF m = p
                     THEN [@[m] EXCEPT !.children =
                              SubSeq(sibs, 1, k - 1) \o kids \o SubSeq(sibs, k + 1, Len(sibs))]
                     ELSE IF m = n
                     THEN [@[m] EXCEPT !.parent = 0, !.children = <<>>]
                     ELSE IF \E j \in 1..Len(kids) : kids[j] = m
                     THEN [@[m] EXCEPT !.parent = p]
                     ELSE @[m]]]

\* Tag.decompose(): n is taken out of its parent and n and everything below
\* it is destroyed
decompose(soup, n) ==
    IF soup.raised THEN soup
    ELSE LET p == soup.nodes[n].parent
             gone == {n} \cup {Descendants(soup.nodes, n)[j] :
                                  j \in 1..Len(Descendants(soup.nodes, n))}
         IN  [soup EXCEPT !.nodes =
                 [m \in 1..Len(@) |->
                     IF m \in gone
                     THEN [@[m] EXCEPT !.parent = 0, !.children = <<>>, !.text = <<>>]
                     ELSE IF m = p
                     THEN [@[m] EXCEPT !.children = SelectSeq(@, LAMBDA c : c # n)]
                     ELSE @[m]]]

(***************************************************************************)
(* HTMLCleaner: the conversions                                            *)
(***************************************************************************)

\* the bullet character U+2022 that _convert_lists writes, one character
Bullet == "bullet"

UpperLetters ==
    <<"A", "B", "C", "D", "E", "F", "G", "H", "I", "J", "K", "L", "M",
      "N", "O", "P", "Q", "R", "S", "T", "U", "V", "W", "X", "Y", "Z">>

LowerLetters ==
    <<"a", "b", "c", "d", "e", "f", "g", "h", "i", "j", "k", "l", "m",
      "n", "o", "p", "q", "r", "s", "t", "u", "v", "w", "x", "y", "z">>

\* str.lower
Lower(s) ==
    [i \in 1..Len(s) |->
        IF \E k \in 1..26 : UpperLetters[k] = s[i]
        THEN LowerLetters[CHOOSE k \in 1..26 : UpperLetters[k] = s[i]]
        ELSE s[i]]

RECURSIVE EachScript(_, _, _)
\* the loop of lines 59-60, from found[i] on
EachScript(soup, found, i) ==
    IF i > Len(found) THEN soup
    ELSE EachScript(decompose(soup, found[i]), found, i + 1)

\* line 58: for script in soup(["script", "style"]): script.decompose()
remove_scripts(soup) ==
    EachScript(soup,
               find_all(soup.nodes, 1, {<<"s", "c", "r", "i", "p", "t">>,
                                        <<"s", "t", "y", "l", "e">>}), 1)

\* the keywords of a note box
NoteKeywords ==
    { <<"n", "o", "t", "e", ":">>,
      <<"w", "a", "r", "n", "i", "n", "g", ":">>,
      <<"i", "m", "p", "o", "r", "t", "a", "n", "t", ":">>,
      <<"t", "i", "p", ":">> }

\* the classes of the containers that may be note boxes
NoteClasses ==
    { <<"w", "p", "-", "b", "l", "o", "c", "k", "-", "g", "r", "o", "u", "p">>,
      <<"w", "p", "-", "b", "l", "o", "c", "k", "-", "c", "o", "l", "u", "m", "n">> }

\* the body of the loop of _handle_wordpress_elements
handle_note(soup, n) ==
    IF soup.raised THEN soup
    ELSE LET note_text == Strip(get_text(soup.nodes, n))
         IN  IF /\ \E keyword \in NoteKeywords :
                      Contains(Lower(get_text(soup.nodes, n)), keyword)
                /\ note_text # <<>>
             THEN replace_with(soup, n, <<"\n">> \o note_text \o <<"\n">>)
             ELSE soup

RECURSIVE EachNote(_, _, _)
\* the loop of _handle_wordpress_elements, from found[i] on
EachNote(soup, found, i) ==
    IF i > Len(found) THEN soup
    ELSE EachNote(handle_note(soup, found[i]), found, i + 1)

\* _handle_wordpress_elements(soup)
handle_wordpress_elements(soup) ==
    EachNote(soup,
            find_all_class(soup.nodes, 1, {<<"d", "i", "v">>}, NoteClasses), 1)

HeadingNames ==
    { <<"h", "1">>, <<"h", "2">>, <<"h", "3">>, <<"h", "4">>, <<"h", "5">>, <<"h", "6">> }

\* int(heading.name[1])
HeadingLevel(name) ==
    CHOOSE level \in 1..6 : Digits(level) = <<name[2]>>

\* a loop body that writes the heading's text without its marker
HeadingWithoutMarker(soup, n) ==
    IF soup.raised THEN soup
    ELSE LET heading_text == Strip(get_text(soup.nodes, n))
         IN  IF heading_text # <<>>
             THEN replace_with(soup, n, <<"\n">> \o heading_text \o <<"\n">>)
             ELSE soup

\* the body of the loop of _convert_headings
convert_heading(soup, n) ==
    IF soup.raised THEN soup
    ELSE LET level == HeadingLevel(soup.nodes[n].name)
             heading_text == Strip(get_text(soup.nodes, n))
         IN  IF heading_text # <<>>
             THEN replace_with(soup, n,
                      <<"\n">> \o Fill("#", level) \o <<" ">> \o heading_text \o <<"\n">>)
             ELSE soup

RECURSIVE EachHeading(_, _, _)
\* the loop of _convert_headings, from found[i] on
EachHeading(soup, found, i) ==
    IF i > Len(found) THEN soup
    ELSE EachHeading(convert_heading(soup, found[i]), found, i + 1)

\* _convert_headings(soup)
convert_headings(soup) ==
    EachHeading(soup, find_all(soup.nodes, 1, HeadingNames), 1)

\* the body of the inner loop over the items of an unordered list
convert_bullet(soup, n) ==
    IF soup.raised THEN soup
    ELSE LET li_text == Strip(get_text(soup.nodes, n))
         IN  IF li_text # <<>>
             THEN replace_with(soup, n, <<Bullet, " ">> \o li_text \o <<"\n">>)
             ELSE soup

RECURSIVE EachBullet(_, _, _)
\* the inner loop over the items of an unordered list, from found[i] on
EachBullet(soup, found, i) ==
    IF i > Len(found) THEN soup
    ELSE EachBullet(convert_bullet(soup, found[i]), found, i + 1)

\* the body of the loop over the unordered lists
convert_ul(soup, n) ==
    IF soup.raised THEN soup
    ELSE unwrap(EachBullet(soup,
                        find_all(soup.nodes, n, {<<"l", "i">>}), 1), n)

RECURSIVE EachUnorderedList(_, _, _)
\* the loop over the unordered lists, from found[i] on
EachUnorderedList(soup, found, i) ==
    IF i > Len(found) THEN soup
    ELSE EachUnorderedList(convert_ul(soup, found[i]), found, i + 1)

RECURSIVE NumberItems(_, _, _)
\* for i, li in enumerate(items, 1): the items items[i..] of one ordered
\* list
NumberItems(soup, items, i) ==
    IF i > Len(items) \/ soup.raised THEN soup
    ELSE LET li_text == Strip(get_text(soup.nodes, items[i]))
             next == IF li_text # <<>>
                     THEN replace_with(soup, items[i],
                              Digits(i) \o <<".", " ">> \o li_text \o <<"\n">>)
                     ELSE soup
         IN  NumberItems(next, items, i + 1)

\* the body of the loop over the ordered lists
convert_ol(soup, n) ==
    IF soup.raised THEN soup
    ELSE unwrap(NumberItems(soup, find_all(soup.nodes, n, {<<"l", "i">>}), 1), n)

RECURSIVE EachOrderedList(_, _, _)
\* the loop over the ordered lists, from found[i] on
EachOrderedList(soup, found, i) ==
    IF i > Len(found) THEN soup
    ELSE EachOrderedList(convert_ol(soup, found[i]), found, i + 1)

\* _convert_lists(soup): the unordered lists, then the ordered ones
convert_lists(soup) ==
    LET after_ul == EachUnorderedList(soup,
                            find_all(soup.nodes, 1, {<<"u", "l">>}), 1)
    IN  IF after_ul.raised THEN after_ul
        ELSE EachOrderedList(after_ul,
                     find_all(after_ul.nodes, 1, {<<"o", "l">>}), 1)

\* the body of the loop of _convert_code_blocks
convert_code(soup, n) ==
    IF soup.raised THEN soup
    ELSE LET code_text == Strip(get_text(soup.nodes, n))
         IN  IF code_text # <<>>
             THEN replace_with(soup, n, <<Backtick>> \o code_text \o <<Backtick>>)
             ELSE soup

RECURSIVE EachCode(_, _, _)
\* the loop of _convert_code_blocks, from found[i] on
EachCode(soup, found, i) ==
    IF i > Len(found) THEN soup
    ELSE EachCode(convert_code(soup, found[i]), found, i + 1)

\* _convert_code_blocks(soup)
convert_code_blocks(soup) ==
    EachCode(soup,
            find_all(soup.nodes, 1, {<<"c", "o", "d", "e">>, <<"p", "r", "e">>}), 1)

\* a loop body that never writes the href
LinkTextOnly(soup, n) ==
    IF soup.raised THEN soup
    ELSE LET link_text == Strip(get_text(soup.nodes, n))
         IN  IF link_text # <<>> THEN replace_with(soup, n, link_text) ELSE soup

\* the body of the loop of _convert_links
convert_link(soup, n) ==
    IF soup.raised THEN soup
    ELSE LET link_text == Strip(get_text(soup.nodes, n))
             href == soup.nodes[n].href
         IN  IF link_text # <<>> /\ href # <<>>
             THEN replace_with(soup, n, link_text \o <<" ", "(">> \o href \o <<")">>)
             ELSE IF link_text # <<>>
             THEN replace_with(soup, n, link_text)
             ELSE soup

RECURSIVE EachLink(_, _, _)
\* the loop of _convert_links, from found[i] on
EachLink(soup, found, i) ==
    IF i > Len(found) THEN soup
    ELSE EachLink(convert_link(soup, found[i]), found, i + 1)

\* _convert_links(soup)
convert_links(soup) ==
    EachLink(soup, find_all(soup.nodes, 1, {<<"a">>}), 1)

\* the body of the loop of _convert_paragraphs
convert_paragraph(soup, n) ==
    IF soup.raised THEN soup
    ELSE LET p_text == Strip(get_text(soup.nodes, n))
         IN  IF p_text # <<>>
             THEN replace_with(soup, n, p_text \o <<"\n", "\n">>)
             ELSE soup

RECURSIVE EachParagraph(_, _, _)
\* the loop of _convert_paragraphs, from found[i] on
EachParagraph(soup, found, i) ==
    IF i > Len(found) THEN soup
    ELSE EachParagraph(convert_paragraph(soup, found[i]), found, i + 1)

\* _convert_paragraphs(soup)
convert_paragraphs(soup) ==
    EachParagraph(soup, find_all(soup.nodes, 1, {<<"p">>}), 1)

\* the body of the loop of _convert_line_breaks
convert_line_break(soup, n) == replace_with(soup, n, <<"\n">>)

RECURSIVE EachLineBreak(_, _, _)
\* the loop of _convert_line_breaks, from found[i] on
EachLineBreak(soup, found, i) ==
    IF i > Len(found) THEN soup
    ELSE EachLineBreak(convert_line_break(soup, found[i]), found, i + 1)

\* _convert_line_breaks(soup)
convert_line_breaks(soup) ==
    EachLineBreak(soup, find_all(soup.nodes, 1, {<<"b", "r">>}), 1)

RECURSIVE CleanLines(_, _, _)
\* the loop of _normalize_whitespace over lines[i..]
CleanLines(cleaned_lines, lines, i) ==
    IF i > Len(lines) THEN cleaned_lines
    ELSE LET cleaned_line == Strip(lines[i])
             next == IF cleaned_line # <<>>
                     THEN Append(cleaned_lines, cleaned_line)
                     ELSE IF /\ cleaned_lines # <<>>
                             /\ cleaned_lines[Len(cleaned_lines)] # <<>>
                     THEN Append(cleaned_lines, <<>>)
                     ELSE cleaned_lines
         IN  CleanLines(next, lines, i + 1)

RECURSIVE SqueezeNewlines(_, _)
\* re.sub(r"\n{3,}", "\n\n", s) from index i on
SqueezeNewlines(s, i) ==
    LET first == FindChar(s, i, {"\n"})
    IN  IF first = 0 THEN SubSeq(s, i, Len(s))
        ELSE LET n == FindNotChar(s, first, {"\n"})
                 e == IF n = 0 THEN Len(s) + 1 ELSE n
             IN  SubSeq(s, i, first - 1)
                     \o (IF e - first >= 3 THEN <<"\n", "\n">> ELSE SubSeq(s, first, e - 1))
                     \o SqueezeNewlines(s, e)

\* the normalisation without its final strip()
NormalizeWithoutTrim(text) ==
    SqueezeNewlines(Join(CleanLines(<<>>, Split(text, <<"\n">>), 1), <<"\n">>), 1)

\* _normalize_whitespace(text)
normalize_whitespace(text) ==
    Strip(SqueezeNewlines(Join(CleanLines(<<>>, Split(text, <<"\n">>), 1), <<"\n">>), 1))

RECURSIVE RemoveTags(_, _)
\* re.sub(r"<[^>]+>", "", s) from index i on: '<', one or more characters
\* other than '>', then '>'
RemoveTags(s, i) ==
    LET open == FindChar(s, i, {"<"})
        close == FindChar(s, open + 1, {">"})
    IN  IF open = 0 THEN SubSeq(s, i, Len(s))
        ELSE IF close > open + 1
        THEN SubSeq(s, i, open - 1) \o RemoveTags(s, close + 1)
        ELSE SubSeq(s, i, open) \o RemoveTags(s, open + 1)

RECURSIVE CollapseWhitespace(_, _)
\* re.sub(r"\s+", " ", s) from index i on
CollapseWhitespace(s, i) ==
    LET first == FindChar(s, i, Whitespace)
        n == FindNotChar(s, first, Whitespace)
    IN  IF first = 0 THEN SubSeq(s, i, Len(s))
        ELSE SubSeq(s, i, first - 1) \o <<" ">>
                 \o (IF n = 0 THEN <<>> ELSE CollapseWhitespace(s, n))

\* mutant: the fallback removes the tags and leaves the whitespace as it is
FallbackKeepsWhitespace(html_content) == RemoveTags(html_content, 1)

\* _fallback_clean(html_content)
fallback_clean(html_content) ==
    Strip(CollapseWhitespace(RemoveTags(html_content, 1), 1))

(***************************************************************************)
(* HTMLCleaner: markup and its parse                                       *)
(*                                                                         *)
(* A document is written as nested elements; html_content is its markup,   *)
(* character by character, and BeautifulSoup(html_content, "html.parser")  *)
(* is the tree of the document the markup is written from.                 *)
(***************************************************************************)

\* an element <name class=".." href="..">children</name>
Element(name, class, href, children) ==
    [kind |-> "tag", name |-> name, class |-> class, href |-> href,
     text |-> <<>>, children |-> children]

\* an element without attributes
Plain(name, children) == Element(name, <<>>, <<>>, children)

\* text between tags
Str(text) ==
    [kind |-> "text", name |-> <<>>, class |-> <<>>, href |-> <<>>,
     text |-> text, children |-> <<>>]

\* the elements html.parser closes as soon as they open
VoidNames == { <<"b", "r">> }

RECURSIVE Markup(_, _)
\* the markup of the elements elements[i..]
Markup(elements, i) ==
    IF i > Len(elements) THEN <<>>
    ELSE LET e == elements[i]
             class == IF e.class = <<>> THEN <<>>
                      ELSE <<" ", "c", "l", "a", "s", "s", "=", "\"">>
                               \o Join(e.class, <<" ">>) \o <<"\"">>
             href == IF e.href = <<>> THEN <<>>
                     ELSE <<" ", "h", "r", "e", "f", "=", "\"">> \o e.href \o <<"\"">>
             this == IF e.kind = "text" THEN e.text
                     ELSE IF e.name \in VoidNames THEN <<"<">> \o e.name \o <<">">>
                     ELSE <<"<">> \o e.name \o class \o href \o <<">">>
                              \o Markup(e.children, 1)
                              \o <<"<", "/">> \o e.name \o <<">">>
         IN  this \o Markup(elements, i + 1)

\* the elements inside which bs4 keeps whitespace as it is written
PreserveWhitespaceTags == { <<"p", "r", "e">>, <<"t", "e", "x", "t", "a", "r", "e", "a">> }

RECURSIVE InPreservedTag(_, _)
\* the node n or one of the nodes above it is a <pre> or a <textarea>
InPreservedTag(nodes, n) ==
    IF n = 0 THEN FALSE
    ELSE nodes[n].name \in PreserveWhitespaceTags \/ InPreservedTag(nodes, nodes[n].parent)

\* BeautifulSoup.endData: a string that is all whitespace, outside <pre> and
\* <textarea>, is kept as one newline if it holds one and as one space
\* otherwise
EndData(nodes, text, parent) ==
    IF text # <<>> /\ Strip(text) = <<>> /\ ~InPreservedTag(nodes, parent)
    THEN (IF \E k \in 1..Len(text) : text[k] = "\n" THEN <<"\n">> ELSE <<" ">>)
    ELSE text

RECURSIVE AddTree(_, _, _)
RECURSIVE AddForest(_, _, _, _)
\* the table nodes with the tree of element e added below parent
AddTree(nodes, e, parent) ==
    LET id == Len(nodes) + 1
        self == IF e.kind = "text" THEN StringNode(EndData(nodes, e.text, parent), parent)
                ELSE TagNode(e.name, e.class, e.href, parent, <<>>)
        below == AddForest(Append(nodes, self), e.children, 1, id)
    IN  [nodes |-> [below.nodes EXCEPT ![id].children = below.ids], id |-> id]

\* the table nodes with the trees of elements[i..] added below parent
AddForest(nodes, elements, i, parent) ==
    IF i > Len(elements) THEN [nodes |-> nodes, ids |-> <<>>]
    ELSE LET first == AddTree(nodes, elements[i], parent)
             rest == AddForest(first.nodes, elements, i + 1, parent)
         IN  [nodes |-> rest.nodes, ids |-> <<first.id>> \o rest.ids]

\* the tree of a document: node 1 is the BeautifulSoup object
Tree(document) ==
    [nodes |-> AddTree(<<>>, Plain(<<"[", "d", "o", "c", "u", "m", "e", "n", "t", "]">>,
                                   document), 0).nodes,
     raised |-> FALSE]

\* no tree yet
NoSoup == [nodes |-> <<>>, raised |-> FALSE]

\* the keywords of a marked section <![keyword[ that html.parser knows
MarkedSectionKeywords ==
    { <<"t", "e", "m", "p">>, <<"c", "d", "a", "t", "a">>,
      <<"i", "g", "n", "o", "r", "e">>, <<"i", "n", "c", "l", "u", "d", "e">>,
      <<"r", "c", "d", "a", "t", "a">>, <<"i", "f">>, <<"e", "l", "s", "e">>,
      <<"e", "n", "d", "i", "f">> }

\* html.parser raises AssertionError at a marked section with an unknown
\* keyword, and bs4 raises ParserRejectedMarkup for it
ParserRejects(html_content) ==
    \E i \in 1..Len(html_content) :
        /\ MatchAt(html_content, i, <<"<", "!", "[">>)
        /\ LET e == FindChar(html_content, i + 3, {"[", "]", ">", " ", "\n", "\t"})
               keyword == SubSeq(html_content, i + 3,
                                 IF e = 0 THEN Len(html_content) ELSE e - 1)
           IN  keyword \notin MarkedSectionKeywords

(***************************************************************************)
(* HTMLCleaner: input documents                                            *)
(***************************************************************************)

\* <h2>A</h2><p>three sentences</p>
OneSection ==
    << Plain(<<"h", "2">>, <<Str(<<"A">>)>>),
       Plain(<<"p">>, <<Str(Repeat(Sentence, 3))>>) >>

\* <script>alert(1)</script><p> </p>: no text outside the script
OnlyScript ==
    << Plain(<<"s", "c", "r", "i", "p", "t">>,
             <<Str(<<"a", "l", "e", "r", "t", "(", "1", ")">>)>>),
       Plain(<<"p">>, <<Str(<<" ">>)>>) >>

\* <h2>B</h2><p>three sentences</p><h3>C</h3><p>four sentences</p>
TwoSections ==
    << Plain(<<"h", "2">>, <<Str(<<"B">>)>>),
       Plain(<<"p">>, <<Str(Repeat(Sentence, 3))>>),
       Plain(<<"h", "3">>, <<Str(<<"C">>)>>),
       Plain(<<"p">>, <<Str(Repeat(Sentence, 4))>>) >>

\* a line of code of 36 characters that ends in '.' and a newline
CodeLine == Fill("x", 34) \o <<".", "\n">>

\* the number of lines of the long block of code
CodeLines == 30

\* <h4>H</h4><pre>thirty lines of code</pre>
LongPre ==
    << Plain(<<"h", "4">>, <<Str(<<"H">>)>>),
       Plain(<<"p", "r", "e">>, <<Str(Repeat(CodeLine, CodeLines))>>) >>

\* the documents whose markup clean_html is called with
Documents ==
    {OneSection, OnlyScript, TwoSections, LongPre} \cup
    { \* <h2>A</h2><p>short</p>
      << Plain(<<"h", "2">>, <<Str(<<"A">>)>>),
         Plain(<<"p">>, <<Str(<<"s", "h", "o", "r", "t">>)>>) >>,
      \* whitespace, <h1>Title</h1>, <p>This is <strong>bold</strong>   text.</p>
      << Str(<<"\n", " ", " ">>),
         Plain(<<"h", "1">>, <<Str(<<"T", "i", "t", "l", "e">>)>>),
         Str(<<"\n">>),
         Plain(<<"p">>, << Str(<<"T", "h", "i", "s", " ", "i", "s", " ">>),
                          Plain(<<"s", "t", "r", "o", "n", "g">>,
                                <<Str(<<"b", "o", "l", "d">>)>>),
                          Str(<<" ", " ", " ", "t", "e", "x", "t", ".">>) >>),
         Str(<<"\n">>) >>,
      \* <script>alert(1)</script><p>Keep</p><style>p {}</style>
      << Plain(<<"s", "c", "r", "i", "p", "t">>,
               <<Str(<<"a", "l", "e", "r", "t", "(", "1", ")">>)>>),
         Plain(<<"p">>, <<Str(<<"K", "e", "e", "p">>)>>),
         Plain(<<"s", "t", "y", "l", "e">>, <<Str(<<"p", " ", "{", "}">>)>>) >>,
      \* <ul><li>one</li><li> </li><li>two <a href="u">link</a></li></ul>
      << Plain(<<"u", "l">>,
               << Plain(<<"l", "i">>, <<Str(<<"o", "n", "e">>)>>),
                  Plain(<<"l", "i">>, <<Str(<<" ">>)>>),
                  Plain(<<"l", "i">>,
                        << Str(<<"t", "w", "o", " ">>),
                           Element(<<"a">>, <<>>, <<"u">>,
                                   <<Str(<<"l", "i", "n", "k">>)>>) >>) >>) >>,
      \* <ol><li>one</li><li></li><li>two<ol><li>in</li></ol></li><li>three</li></ol>
      << Plain(<<"o", "l">>,
               << Plain(<<"l", "i">>, <<Str(<<"o", "n", "e">>)>>),
                  Plain(<<"l", "i">>, <<>>),
                  Plain(<<"l", "i">>,
                        << Str(<<"t", "w", "o">>),
                           Plain(<<"o", "l">>,
                                 <<Plain(<<"l", "i">>, <<Str(<<"i", "n">>)>>)>>) >>),
                  Plain(<<"l", "i">>, <<Str(<<"t", "h", "r", "e", "e">>)>>) >>) >>,
      \* <pre><code>x = 1\ny = 2</code></pre><p>Use <code>f()</code> now.</p>
      << Plain(<<"p", "r", "e">>,
               <<Plain(<<"c", "o", "d", "e">>,
                       <<Str(<<"x", " ", "=", " ", "1", "\n", "y", " ", "=", " ", "2">>)>>)>>),
         Plain(<<"p">>, << Str(<<"U", "s", "e", " ">>),
                          Plain(<<"c", "o", "d", "e">>, <<Str(<<"f", "(", ")">>)>>),
                          Str(<<" ", "n", "o", "w", ".">>) >>) >>,
      \* <div class="wp-block-group"><p>Note: be <a>careful</a></p><h3>T</h3></div>
      \* <div class="wp-block-column">plain</div>
      << Element(<<"d", "i", "v">>,
                 <<<<"w", "p", "-", "b", "l", "o", "c", "k", "-", "g", "r", "o", "u", "p">>>>,
                 <<>>,
                 << Plain(<<"p">>, << Str(<<"N", "o", "t", "e", ":", " ", "b", "e", " ">>),
                                     Plain(<<"a">>,
                                           <<Str(<<"c", "a", "r", "e", "f", "u", "l">>)>>) >>),
                    Plain(<<"h", "3">>, <<Str(<<"T">>)>>) >>),
         Element(<<"d", "i", "v">>,
                 <<<<"w", "p", "-", "b", "l", "o", "c", "k", "-", "c", "o", "l", "u", "m", "n">>>>,
                 <<>>,
                 <<Str(<<"p", "l", "a", "i", "n">>)>>) >>,
      \* <p><a href="u">text</a> <a>nohref</a> <a href="u"></a></p>
      << Plain(<<"p">>,
               << Element(<<"a">>, <<>>, <<"u">>, <<Str(<<"t", "e", "x", "t">>)>>),
                  Str(<<" ">>),
                  Plain(<<"a">>, <<Str(<<"n", "o", "h", "r", "e", "f">>)>>),
                  Str(<<" ">>),
                  Element(<<"a">>, <<>>, <<"u">>, <<>>) >>) >>,
      \* line one<br>line  two \t<br><br><br>end
      << Str(<<"l", "i", "n", "e", " ", "o", "n", "e">>),
         Plain(<<"b", "r">>, <<>>),
         Str(<<"l", "i", "n", "e", " ", " ", "t", "w", "o", " ", "\t">>),
         Plain(<<"b", "r">>, <<>>),
         Plain(<<"b", "r">>, <<>>),
         Plain(<<"b", "r">>, <<>>),
         Str(<<"e", "n", "d">>) >>,
      \* <ul><li><h3>T</h3></li></ul><a href="u"><h2>A</h2></a>
      << Plain(<<"u", "l">>,
               <<Plain(<<"l", "i">>, <<Plain(<<"h", "3">>, <<Str(<<"T">>)>>)>>)>>),
         Element(<<"a">>, <<>>, <<"u">>,
                 <<Plain(<<"h", "2">>, <<Str(<<"A">>)>>)>>) >>,
      \* <h2><a href="u">A</a> b</h2><h4> </h4><h5>E</h5>x<h6>F  G</h6>
      << Plain(<<"h", "2">>,
               << Element(<<"a">>, <<>>, <<"u">>, <<Str(<<"A">>)>>),
                  Str(<<" ", "b">>) >>),
         Plain(<<"h", "4">>, <<Str(<<" ">>)>>),
         Plain(<<"h", "5">>, <<Str(<<"E">>)>>),
         Str(<<"x">>),
         Plain(<<"h", "6">>, <<Str(<<"F", " ", " ", "G">>)>>) >>,
      \* <div class="wp-block-group">Tip: <a href="u">see</a></div>
      \* <p><a href="v">w</a></p>
      << Element(<<"d", "i", "v">>,
                 <<<<"w", "p", "-", "b", "l", "o", "c", "k", "-", "g", "r", "o", "u", "p">>>>,
                 <<>>,
                 << Str(<<"T", "i", "p", ":", " ">>),
                    Element(<<"a">>, <<>>, <<"u">>, <<Str(<<"s", "e", "e">>)>>) >>),
         Plain(<<"p">>, <<Element(<<"a">>, <<>>, <<"v">>, <<Str(<<"w">>)>>)>>) >> }

\* None, which is no text
None == <<"None">>

\* a marked section that html.parser does not know
UnknownMarkedSection == <<"<", "!", "[", "f", "o", "o", "[", "x", "]", "]", ">">>

\* the arguments of clean_html: None, blank strings, the markup of the
\* documents, and markup that the parser rejects
HtmlInputs ==
    {None, <<>>, <<" ", "\n", "\t">>}
        \cup {Markup(d, 1) : d \in Documents}
        \cup {UnknownMarkedSection \o Markup(d, 1) : d \in Documents}

\* BeautifulSoup(html_content, "html.parser")
BeautifulSoup(html_content) ==
    IF ParserRejects(html_content) THEN [NoSoup EXCEPT !.raised = TRUE]
    ELSE IF \A i \in 1..Len(html_content) : html_content[i] \notin {"<", "&"}
    THEN Tree(<<Str(html_content)>>)
    ELSE Tree(CHOOSE d \in Documents : Markup(d, 1) = html_content)

(***************************************************************************)
(* chunk_text as a state machine                                           *)
(***************************************************************************)

\* the invocations of chunk_text
NumCalls == 2

Calls == 1..NumCalls

VARIABLES
    pc,                 \* pc[c]: where invocation c stands
    arg,                \* arg[c]: the text invocation c was called with
    ret,                \* ret[c]: what invocation c returned
    code_blocks,        \* the locals of chunk_text, one set per frame
    text_without_code,
    sections,
    idx,                \* the position of `for section in sections`
    chunks,
    section_chunks,     \* history: what _process_section returned, per section
    split_chunks,       \* history: chunks as handed to _merge_code_blocks
    restored_chunks,    \* history: chunks as handed to _validate_chunk_sizes
    step,               \* where the call of clean_html stands
    html_content,       \* the argument of clean_html
    soup,               \* the local soup of clean_html
    cleaned,            \* what clean_html returned
    caught,             \* history: the position at which an exception was caught
    client_pc,          \* where the call of process_documentation stands
    section_arg,        \* the argument section of process_documentation
    site,               \* the pages the WordPress API serves, a list of items each
    page,               \* the local page of _fetch_wp_docs
    docs,               \* the documents fetched so far, then the loop's list
    doc,                \* the position of `for doc in docs`
    ids,                \* the locals ids, documents and metadatas
    documents,
    metadatas,
    result,             \* what process_documentation returned
    error,              \* the exception process_documentation raised
    chunked,            \* history: the positions of the documents chunk_text was called for
    returned,           \* history: what chunk_text returned, call by call
    factory_pc,         \* where the call of execute_operation stands
    operation,          \* the arguments of execute_operation
    provider,
    kwargs,
    clients,            \* LLMServiceFactory.clients
    raised,             \* the exception execute_operation raised
    invoked,            \* history: the client methods that were called
    pack_pc,            \* which of the two splitting functions was called
    pack_text,          \* its arguments text and max_size
    pack_max_size,
    pack_chunks,        \* history: the local chunks of _chunk_by_paragraphs after its first loop
    pack_ret,           \* what the function returned
    ingest_pc,          \* where the call of ingest stands
    clear_existing,     \* the argument clear_existing of ingest
    collection,         \* the collection on the ChromaDB server
    stored_before,      \* history: the documents of the collection before the call
    processed_data,     \* the local processed_data of ingest
    batch_start,        \* the local i of the loop over the batches
    batches_added,      \* history: the number of batches the server accepted
    ingest_error        \* the step at which an exception left ingest

chunker_vars ==
    <<pc, arg, ret, code_blocks, text_without_code, sections, idx, chunks,
      section_chunks, split_chunks, restored_chunks>>

cleaner_vars == <<step, html_content, soup, cleaned, caught>>

client_vars ==
    <<client_pc, section_arg, site, page, docs, doc, ids, documents, metadatas, result,
      error, chunked, returned>>

factory_vars == <<factory_pc, operation, provider, kwargs, clients, raised, invoked>>

pack_vars == <<pack_pc, pack_text, pack_max_size, pack_chunks, pack_ret>>

ingest_vars ==
    <<ingest_pc, clear_existing, collection, stored_before, processed_data,
      batch_start, batches_added, ingest_error>>

vars ==
    <<chunker_vars, cleaner_vars, client_vars, factory_vars, pack_vars, ingest_vars>>

\* mutant: the locals are kept on the shared instance
SharedFrame(c) == 1

\* The frame that holds the locals of invocation c: every invocation binds
\* its own code_blocks, text_without_code, sections and chunks, and the
\* instance has no attribute (__init__ sets none).
Frame(c) == c

TypeOK ==
    /\ pc \in [Calls -> {"idle", "start", "parse", "process", "validate", "done"}]
    /\ DOMAIN arg = Calls
    /\ DOMAIN ret = Calls

Idle == [c \in Calls |-> <<>>]

\* no call of clean_html has been made
CleanerIdle ==
    /\ step = "idle"
    /\ html_content = None
    /\ soup = NoSoup
    /\ cleaned = None
    /\ caught = "none"

\* neither splitting function has been called on its own
PackIdle ==
    /\ pack_pc = "idle"
    /\ pack_text = <<>>
    /\ pack_max_size = 0
    /\ pack_chunks = <<>>
    /\ pack_ret = <<>>

\* no call of ingest has been made
IngestIdle ==
    /\ ingest_pc = "idle"
    /\ clear_existing = TRUE
    /\ collection = [exists |-> FALSE, documents |-> {}]
    /\ stored_before = {}
    /\ processed_data = [total_chunks |-> 0, ids |-> <<>>]
    /\ batch_start = 0
    /\ batches_added = 0
    /\ ingest_error = "none"

\* no call of execute_operation has been made
FactoryIdle ==
    /\ factory_pc = "idle"
    /\ operation = "None"
    /\ provider = "None"
    /\ kwargs = {}
    /\ clients = {}
    /\ raised = [type |-> "none", message |-> "none"]
    /\ invoked = <<>>

\* no exception
NoError == [type |-> "none", status_code |-> 0, page |-> 0]

\* no call of process_documentation has been made
ClientIdle ==
    /\ client_pc = "idle"
    /\ section_arg = None
    /\ site = <<>>
    /\ page = 1
    /\ docs = <<>>
    /\ doc = 0
    /\ ids = <<>>
    /\ documents = <<>>
    /\ metadatas = <<>>
    /\ result = None
    /\ error = NoError
    /\ chunked = {}
    /\ returned = <<>>

\* one call of chunk_text on a text of Inputs
Init ==
    /\ CleanerIdle
    /\ ClientIdle
    /\ FactoryIdle
    /\ PackIdle
    /\ IngestIdle
    /\ pc = [c \in Calls |-> IF c = 1 THEN "start" ELSE "idle"]
    /\ \E t \in Inputs : arg = [c \in Calls |-> IF c = 1 THEN t ELSE <<>>]
    /\ ret = Idle
    /\ code_blocks = Idle
    /\ text_without_code = Idle
    /\ sections = Idle
    /\ idx = [c \in Calls |-> 0]
    /\ chunks = Idle
    /\ section_chunks = Idle
    /\ split_chunks = Idle
    /\ restored_chunks = Idle

\* lines 41-42: if not text.strip(): return []
ReturnEmpty(c) ==
    /\ pc[c] = "start"
    /\ IsBlank(arg[c])
    /\ ret' = [ret EXCEPT ![c] = <<>>]
    /\ pc' = [pc EXCEPT ![c] = "done"]
    /\ UNCHANGED <<arg, code_blocks, text_without_code, sections, idx, chunks,
                   section_chunks, split_chunks, restored_chunks,
                   cleaner_vars, client_vars, factory_vars,
                   pack_vars, ingest_vars>>

\* mutant: the code-block table is an attribute of the shared chunker
ExtractIntoInstanceTable(c) ==
    /\ pc[c] = "start"
    /\ ~IsBlank(arg[c])
    /\ LET x == remove_code_blocks(arg[c])
       IN  /\ code_blocks' = [code_blocks EXCEPT ![1] = x.code_blocks]
           /\ text_without_code' = [text_without_code EXCEPT ![Frame(c)] = x.text]
    /\ pc' = [pc EXCEPT ![c] = "parse"]
    /\ UNCHANGED <<arg, ret, sections, idx, chunks, section_chunks, split_chunks,
                   restored_chunks,
                   cleaner_vars, client_vars, factory_vars,
                   pack_vars, ingest_vars>>

\* line 47: code_blocks, text_without_code = self._remove_code_blocks(text)
RemoveCodeBlocks(c) ==
    /\ pc[c] = "start"
    /\ ~IsBlank(arg[c])
    /\ LET x == remove_code_blocks(arg[c])
       IN  /\ code_blocks' = [code_blocks EXCEPT ![Frame(c)] = x.code_blocks]
           /\ text_without_code' = [text_without_code EXCEPT ![Frame(c)] = x.text]
    /\ pc' = [pc EXCEPT ![c] = "parse"]
    /\ UNCHANGED <<arg, ret, sections, idx, chunks, section_chunks, split_chunks,
                   restored_chunks,
                   cleaner_vars, client_vars, factory_vars,
                   pack_vars, ingest_vars>>

\* lines 50-53: sections = self._parse_heading_structure(text_without_code)
\*              chunks = []
ParseHeadingStructure(c) ==
    /\ pc[c] = "parse"
    /\ sections' = [sections EXCEPT ![Frame(c)] =
                        parse_heading_structure(text_without_code[Frame(c)])]
    /\ chunks' = [chunks EXCEPT ![Frame(c)] = <<>>]
    /\ section_chunks' = [section_chunks EXCEPT ![Frame(c)] = <<>>]
    /\ idx' = [idx EXCEPT ![Frame(c)] = 1]
    /\ pc' = [pc EXCEPT ![c] = "process"]
    /\ UNCHANGED <<arg, ret, code_blocks, text_without_code, split_chunks,
                   restored_chunks,
                   cleaner_vars, client_vars, factory_vars,
                   pack_vars, ingest_vars>>

\* lines 54-56: one iteration of the loop over sections
ProcessSection(c) ==
    /\ pc[c] = "process"
    /\ idx[Frame(c)] <= Len(sections[Frame(c)])
    /\ LET out == process_section(sections[Frame(c)][idx[Frame(c)]])
       IN  /\ section_chunks' = [section_chunks EXCEPT ![Frame(c)] = Append(@, out)]
           /\ chunks' = [chunks EXCEPT ![Frame(c)] = Extend(@, out)]
    /\ idx' = [idx EXCEPT ![Frame(c)] = @ + 1]
    /\ UNCHANGED <<pc, arg, ret, code_blocks, text_without_code, sections,
                   split_chunks, restored_chunks,
                   cleaner_vars, client_vars, factory_vars,
                   pack_vars, ingest_vars>>

\* line 59: chunks = self._merge_code_blocks(chunks, code_blocks)
MergeCodeBlocks(c) ==
    /\ pc[c] = "process"
    /\ idx[Frame(c)] > Len(sections[Frame(c)])
    /\ split_chunks' = [split_chunks EXCEPT ![Frame(c)] = chunks[Frame(c)]]
    /\ chunks' = [chunks EXCEPT ![Frame(c)] =
                      merge_code_blocks(chunks[Frame(c)], code_blocks[Frame(c)])]
    /\ restored_chunks' = [restored_chunks EXCEPT ![Frame(c)] = chunks'[Frame(c)]]
    /\ pc' = [pc EXCEPT ![c] = "validate"]
    /\ UNCHANGED <<arg, ret, code_blocks, text_without_code, sections, idx,
                   section_chunks,
                   cleaner_vars, client_vars, factory_vars,
                   pack_vars, ingest_vars>>

\* lines 62-65: chunks = self._validate_chunk_sizes(chunks); return chunks
ValidateChunkSizes(c) ==
    /\ pc[c] = "validate"
    /\ chunks' = [chunks EXCEPT ![Frame(c)] = validate_chunk_sizes(chunks[Frame(c)])]
    /\ ret' = [ret EXCEPT ![c] = chunks'[Frame(c)]]
    /\ pc' = [pc EXCEPT ![c] = "done"]
    /\ UNCHANGED <<arg, code_blocks, text_without_code, sections, idx,
                   section_chunks, split_chunks, restored_chunks,
                   cleaner_vars, client_vars, factory_vars,
                   pack_vars, ingest_vars>>

\* a step of invocation c
Step(c) ==
    \/ ReturnEmpty(c)
    \/ RemoveCodeBlocks(c)
    \/ ParseHeadingStructure(c)
    \/ ProcessSection(c)
    \/ MergeCodeBlocks(c)
    \/ ValidateChunkSizes(c)

Next == \E c \in Calls : Step(c)

Spec == Init /\ [][Next]_vars

(***************************************************************************)
(* Several calls of chunk_text on one SemanticChunker                      *)
(***************************************************************************)

\* the texts the calls are made with
CallInputs ==
    {Blocks[2], Blocks[4], Blocks[7], Blocks[9] \o Blocks[6]}

\* no call of chunk_text has been made
ChunkerIdle ==
    /\ pc = [c \in Calls |-> "idle"]
    /\ arg = Idle
    /\ ret = Idle
    /\ code_blocks = Idle
    /\ text_without_code = Idle
    /\ sections = Idle
    /\ idx = [c \in Calls |-> 0]
    /\ chunks = Idle
    /\ section_chunks = Idle
    /\ split_chunks = Idle
    /\ restored_chunks = Idle

InitCalls ==
    ChunkerIdle /\ CleanerIdle /\ ClientIdle /\ FactoryIdle /\ PackIdle /\ IngestIdle

\* a caller invokes chunk_text(t) on the shared chunker
Invoke(c) ==
    /\ pc[c] = "idle"
    /\ \E t \in CallInputs : arg' = [arg EXCEPT ![c] = t]
    /\ pc' = [pc EXCEPT ![c] = "start"]
    /\ UNCHANGED <<ret, code_blocks, text_without_code, sections, idx, chunks,
                   section_chunks, split_chunks, restored_chunks,
                   cleaner_vars, client_vars, factory_vars,
                   pack_vars, ingest_vars>>

NextCalls == \E c \in Calls : Invoke(c) \/ Step(c)

SpecCalls == InitCalls /\ [][NextCalls]_vars

(***************************************************************************)
(* clean_html as a state machine                                           *)
(***************************************************************************)

\* lines 51-52: if not html_content or not html_content.strip()
IsBlankHtml(content) == content = None \/ content = <<>> \/ Strip(content) = <<>>

\* the positions inside the try block, in the order of lines 56-85
TrySteps ==
    <<"start", "scripts", "wordpress", "headings", "lists", "code", "links",
      "paragraphs", "breaks", "text">>

\* one call of clean_html on an argument of HtmlInputs
InitHtml ==
    /\ ChunkerIdle
    /\ ClientIdle
    /\ FactoryIdle
    /\ PackIdle
    /\ IngestIdle
    /\ step = "start"
    /\ html_content \in HtmlInputs
    /\ soup = NoSoup
    /\ cleaned = None
    /\ caught = "none"

\* lines 51-52: return ""
ReturnEmptyString ==
    /\ step = "start"
    /\ IsBlankHtml(html_content)
    /\ cleaned' = <<>>
    /\ step' = "done"
    /\ UNCHANGED <<html_content, soup, caught, chunker_vars, client_vars, factory_vars,
                   pack_vars, ingest_vars>>

\* lines 87-89: except Exception: return self._fallback_clean(html_content)
Except ==
    /\ caught' = step
    /\ cleaned' = fallback_clean(html_content)
    /\ step' = "done"

\* a statement of the try block leaves the tree out; if it raised, the
\* except clause returns the fallback
Try(out, there) ==
    /\ soup' = out
    /\ IF out.raised
       THEN Except
       ELSE step' = there /\ UNCHANGED <<cleaned, caught>>
    /\ UNCHANGED <<html_content, chunker_vars, client_vars, factory_vars,
                   pack_vars, ingest_vars>>

\* line 56: soup = BeautifulSoup(html_content, "html.parser")
ParseHtml ==
    /\ step = "start"
    /\ ~IsBlankHtml(html_content)
    /\ Try(BeautifulSoup(html_content), "scripts")

\* lines 59-60: for script in soup(["script", "style"]): script.decompose()
RemoveScripts ==
    /\ step = "scripts"
    /\ Try(remove_scripts(soup), "wordpress")

\* line 63: self._handle_wordpress_elements(soup)
HandleWordpressElements ==
    /\ step = "wordpress"
    /\ Try(handle_wordpress_elements(soup), "headings")

\* line 66: self._convert_headings(soup)
ConvertHeadings ==
    /\ step = "headings"
    /\ Try(convert_headings(soup), "lists")

\* line 69: self._convert_lists(soup)
ConvertLists ==
    /\ step = "lists"
    /\ Try(convert_lists(soup), "code")

\* line 72: self._convert_code_blocks(soup)
ConvertCodeBlocks ==
    /\ step = "code"
    /\ Try(convert_code_blocks(soup), "links")

\* line 75: self._convert_links(soup)
ConvertLinks ==
    /\ step = "links"
    /\ Try(convert_links(soup), "paragraphs")

\* line 78: self._convert_paragraphs(soup)
ConvertParagraphs ==
    /\ step = "paragraphs"
    /\ Try(convert_paragraphs(soup), "breaks")

\* line 81: self._convert_line_breaks(soup)
ConvertLineBreaks ==
    /\ step = "breaks"
    /\ Try(convert_line_breaks(soup), "text")

\* lines 84-85: text = soup.get_text(); return self._normalize_whitespace(text)
NormalizeText ==
    /\ step = "text"
    /\ cleaned' = normalize_whitespace(get_text(soup.nodes, 1))
    /\ step' = "done"
    /\ UNCHANGED <<html_content, soup, caught, chunker_vars, client_vars, factory_vars,
                   pack_vars, ingest_vars>>

\* a call into bs4, which is not part of the repository, raises at the
\* statement the call stands at (MemoryError, RecursionError, ...)
LibraryRaises ==
    /\ \E k \in 1..Len(TrySteps) : step = TrySteps[k]
    /\ ~IsBlankHtml(html_content)
    /\ Except
    /\ UNCHANGED <<html_content, soup, chunker_vars, client_vars, factory_vars,
                   pack_vars, ingest_vars>>

CleanHtml ==
    \/ ReturnEmptyString
    \/ ParseHtml
    \/ RemoveScripts
    \/ HandleWordpressElements
    \/ ConvertHeadings
    \/ ConvertLists
    \/ ConvertCodeBlocks
    \/ ConvertLinks
    \/ ConvertParagraphs
    \/ ConvertLineBreaks
    \/ NormalizeText
    \/ LibraryRaises

NextHtml == CleanHtml

SpecHtml == InitHtml /\ [][NextHtml]_vars

\* the longest text without markup that clean_html is called with
MaxTextLen == 6

\* texts without markup: words, spaces, tabs and line ends in every order
TextInputs ==
    UNION {[1..n -> {"a", " ", "\t", "\n"}] : n \in 0..MaxTextLen}

\* one call of clean_html on a text without markup, which reaches
\* _normalize_whitespace as it was passed in
InitText ==
    /\ ChunkerIdle
    /\ ClientIdle
    /\ FactoryIdle
    /\ PackIdle
    /\ IngestIdle
    /\ step = "start"
    /\ html_content \in TextInputs
    /\ soup = NoSoup
    /\ cleaned = None
    /\ caught = "none"

SpecText == InitText /\ [][NextHtml]_vars

(***************************************************************************)
(* WPCodexClient: process_documentation as a state machine                 *)
(*                                                                         *)
(* The WordPress API is the environment: it serves the pages of `site` and *)
(* may answer any request with an error.  clean_html and chunk_text run as *)
(* the state machines above, one call per document.                        *)
(***************************************************************************)

\* ENDPOINT_MAPPING: the sections that have an endpoint
ENDPOINT_MAPPING == {"plugin"}

\* the sections process_documentation is called with
Sections == {"plugin", "theme"}

\* "WordPress Documentation", the title of an item without one
DefaultTitle ==
    <<"W", "o", "r", "d", "P", "r", "e", "s", "s", " ",
      "D", "o", "c", "u", "m", "e", "n", "t", "a", "t", "i", "o", "n">>

\* an item of a response: a JSON object with the keys it has
Item(keys, id, link, title, content) ==
    [keys |-> keys, id |-> id, link |-> link, title |-> title, content |-> content]

AllKeys == {"id", "link", "title", "content"}

\* lines 103-145: the ProcessedDocument made from an item.  An item that
\* WordPressAPIResponse accepts takes its id, or its link when the id is 0;
\* an item it rejects is read key by key with defaults.
to_document(item) ==
    IF AllKeys \subseteq item.keys
    THEN [id |-> IF item.id # 0 THEN Digits(item.id) ELSE item.link,
          title |-> item.title,
          url |-> item.link,
          content |-> item.content]
    ELSE [id |-> IF "id" \in item.keys THEN Digits(item.id)
                 ELSE IF "link" \in item.keys THEN item.link ELSE <<>>,
          title |-> IF "title" \in item.keys THEN item.title ELSE DefaultTitle,
          url |-> IF "link" \in item.keys THEN item.link ELSE <<>>,
          content |-> IF "content" \in item.keys THEN item.content ELSE <<>>]

\* the status codes the API answers with
StatusCodes == {200, 301, 400, 403, 404, 429, 500, 503}

\* _validate_http_response(resp, page, api_url): "stop" for return False,
\* "continue" for return True, "raise" for httpx.HTTPStatusError
validate_http_response(status_code, invalid_page_number) ==
    IF status_code = 400 /\ invalid_page_number THEN "stop"
    ELSE IF status_code = 404 THEN "raise"
    ELSE IF status_code = 429 THEN "raise"
    ELSE IF status_code >= 500 THEN "raise"
    ELSE IF status_code >= 400 THEN "raise"
    ELSE IF status_code \in 200..299 THEN "continue"
    ELSE "raise"

\* what the API may answer to the request of page number n: the items of
\* the page, the end of the pagination after the last page (an error 400
\* with rest_post_invalid_page_number, or an empty list), a body that is not
\* JSON, any other status, or no answer at all
Responses(pages, n) ==
    (IF n <= Len(pages)
     THEN {[kind |-> "response", status_code |-> 200, invalid_page_number |-> FALSE,
            json |-> TRUE, items |-> pages[n]]}
     ELSE {[kind |-> "response", status_code |-> 400, invalid_page_number |-> TRUE,
            json |-> TRUE, items |-> <<>>],
           [kind |-> "response", status_code |-> 200, invalid_page_number |-> FALSE,
            json |-> TRUE, items |-> <<>>]})
    \cup {[kind |-> "response", status_code |-> 200, invalid_page_number |-> FALSE,
           json |-> FALSE, items |-> <<>>]}
    \cup {[kind |-> "response", status_code |-> code, invalid_page_number |-> FALSE,
           json |-> TRUE, items |-> <<>>] : code \in StatusCodes \ {200}}
    \cup {[kind |-> "RequestError", status_code |-> 0, invalid_page_number |-> FALSE,
           json |-> FALSE, items |-> <<>>]}

\* an id that counts the chunks from 1
ChunkIdOneBased(doc_id, index) == doc_id \o <<"#", "c">> \o Digits(index + 1)

\* line 344: f"{doc.id}#c{idx}"
chunk_id(doc_id, index) == doc_id \o <<"#", "c">> \o Digits(index)

\* a loop that skips no document
NeverSkipped(cleaned_content) == FALSE

\* line 335: if not cleaned_content.strip()
IsSkipped(cleaned_content) == Strip(cleaned_content) = <<>>

\* the items the API serves
Items ==
    << Item(AllKeys, 7, <<"u", "/", "7">>, <<"T", "7">>, Markup(OneSection, 1)),
       Item(AllKeys, 8, <<"u", "/", "8">>, <<"T", "8">>, Markup(OnlyScript, 1)),
       Item(AllKeys, 0, <<"u", "/", "3">>, <<"T", "3">>, Markup(TwoSections, 1)),
       Item({"id", "link", "content"}, 5, <<"u", "/", "5">>, <<>>, <<>>),
       Item(AllKeys, 9, <<"u", "/", "9">>, <<"T", "9">>, Markup(LongPre, 1)) >>

\* the pages the API serves them in
Pages == { <<Items[1], Items[2]>>, <<Items[3], Items[4]>>, <<Items[5]>> }

\* the most pages a site has
MaxPages == 2

\* the sites: every list of up to MaxPages pages
Sites == UNION {[1..n -> Pages] : n \in 0..MaxPages}

\* one call of process_documentation(section) against a site
InitClient ==
    /\ ChunkerIdle
    /\ CleanerIdle
    /\ FactoryIdle
    /\ PackIdle
    /\ IngestIdle
    /\ client_pc = "start"
    /\ section_arg \in Sections
    /\ site \in Sites
    /\ page = 1
    /\ docs = <<>>
    /\ doc = 0
    /\ ids = <<>>
    /\ documents = <<>>
    /\ metadatas = <<>>
    /\ result = None
    /\ error = NoError
    /\ chunked = {}
    /\ returned = <<>>

\* an exception leaves process_documentation
Raise(type, status_code) ==
    /\ error' = [type |-> type, status_code |-> status_code, page |-> page]
    /\ client_pc' = "raised"

\* lines 315-320: if section not in self.ENDPOINT_MAPPING: raise ValueError
MapEndpoint ==
    /\ client_pc = "start"
    /\ IF section_arg \notin ENDPOINT_MAPPING
       THEN Raise("ValueError", 0)
       ELSE client_pc' = "fetch" /\ UNCHANGED error
    /\ UNCHANGED <<section_arg, site, page, docs, doc, ids, documents, metadatas,
                   result, chunked, returned, chunker_vars, cleaner_vars, factory_vars,
                   pack_vars, ingest_vars>>

\* lines 85-176: one round of the loop of _fetch_wp_docs.  The page is
\* requested once; every exception is logged and raised again, and nothing
\* in process_documentation catches it.
FetchPage ==
    /\ client_pc = "fetch"
    /\ \E resp \in Responses(site, page) :
          LET verdict == IF resp.kind = "RequestError" THEN "raise"
                         ELSE validate_http_response(resp.status_code,
                                                     resp.invalid_page_number)
          IN  IF resp.kind = "RequestError"
              THEN Raise("RequestError", 0) /\ UNCHANGED <<page, docs>>
              ELSE IF verdict = "raise"
              THEN Raise("HTTPStatusError", resp.status_code) /\ UNCHANGED <<page, docs>>
              ELSE IF verdict = "stop"
              THEN client_pc' = "loop" /\ UNCHANGED <<page, docs, error>>
              ELSE IF ~resp.json
              THEN Raise("ValueError", resp.status_code) /\ UNCHANGED <<page, docs>>
              ELSE IF resp.items = <<>>
              THEN client_pc' = "loop" /\ UNCHANGED <<page, docs, error>>
              ELSE /\ docs' = docs \o [k \in 1..Len(resp.items) |-> to_document(resp.items[k])]
                   /\ page' = page + 1
                   /\ UNCHANGED <<client_pc, error>>
    /\ UNCHANGED <<section_arg, site, doc, ids, documents, metadatas, result,
                   chunked, returned, chunker_vars, cleaner_vars, factory_vars,
                   pack_vars, ingest_vars>>

\* lines 330-332: the next document of `for doc in docs`, and the call of
\* clean_html(doc.content)
CleanDocument ==
    /\ client_pc = "loop"
    /\ doc < Len(docs)
    /\ doc' = doc + 1
    /\ client_pc' = "clean"
    /\ step' = "start"
    /\ html_content' = docs[doc + 1].content
    /\ soup' = NoSoup
    /\ cleaned' = None
    /\ caught' = "none"
    /\ UNCHANGED <<section_arg, site, page, docs, ids, documents, metadatas,
                   result, error, chunked, returned, chunker_vars, factory_vars,
                   pack_vars, ingest_vars>>

\* lines 335-339: a document with no content after cleaning is skipped
SkipDocument ==
    /\ client_pc = "clean"
    /\ step = "done"
    /\ IsSkipped(cleaned)
    /\ client_pc' = "loop"
    /\ UNCHANGED <<section_arg, site, page, docs, doc, ids, documents, metadatas,
                   result, error, chunked, returned, chunker_vars, cleaner_vars, factory_vars,
                   pack_vars, ingest_vars>>

\* line 342: the call self.semantic_chunker.chunk_text(cleaned_content)
CallChunker ==
    /\ client_pc = "clean"
    /\ step = "done"
    /\ ~IsSkipped(cleaned)
    /\ client_pc' = "chunk"
    /\ chunked' = chunked \cup {doc}
    /\ pc' = [pc EXCEPT ![1] = "start"]
    /\ arg' = [arg EXCEPT ![1] = cleaned]
    /\ ret' = Idle
    /\ code_blocks' = Idle
    /\ text_without_code' = Idle
    /\ sections' = Idle
    /\ idx' = [c \in Calls |-> 0]
    /\ chunks' = Idle
    /\ section_chunks' = Idle
    /\ split_chunks' = Idle
    /\ restored_chunks' = Idle
    /\ UNCHANGED <<section_arg, site, page, docs, doc, ids, documents, metadatas,
                   result, error, returned, cleaner_vars, factory_vars,
                   pack_vars, ingest_vars>>

\* lines 341-346: the loop over enumerate(chunk_text(cleaned_content))
AppendChunks ==
    /\ client_pc = "chunk"
    /\ pc[1] = "done"
    /\ ids' = ids \o [k \in 1..Len(ret[1]) |-> chunk_id(docs[doc].id, k - 1)]
    /\ documents' = documents \o ret[1]
    /\ metadatas' = metadatas \o [k \in 1..Len(ret[1]) |->
                                     [title |-> docs[doc].title, url |-> docs[doc].url]]
    /\ returned' = Append(returned, [doc |-> doc, chunks |-> ret[1]])
    /\ pc' = [pc EXCEPT ![1] = "idle"]
    /\ client_pc' = "loop"
    /\ UNCHANGED <<section_arg, site, page, docs, doc, result, error, chunked,
                   arg, ret, code_blocks, text_without_code, sections, idx, chunks,
                   section_chunks, split_chunks, restored_chunks, cleaner_vars, factory_vars,
                   pack_vars, ingest_vars>>

\* lines 348-358: the embeddings, one vector per chunk from the embedding
\* model, and the returned dict; an exception of the model is raised again
ReturnResult ==
    /\ client_pc = "loop"
    /\ doc = Len(docs)
    /\ \/ /\ result' = [ids |-> ids,
                        documents |-> documents,
                        metadatas |-> metadatas,
                        embeddings |-> [k \in 1..Len(documents) |-> <<"vector", k>>],
                        total_chunks |-> Len(documents),
                        total_docs |-> Len(docs)]
          /\ client_pc' = "done"
          /\ UNCHANGED error
       \/ /\ Raise("Exception", 0)
          /\ UNCHANGED result
    /\ UNCHANGED <<section_arg, site, page, docs, doc, ids, documents, metadatas,
                   chunked, returned, chunker_vars, cleaner_vars, factory_vars,
                   pack_vars, ingest_vars>>

\* process_documentation.  The early return of chunk_text for blank text is
\* not among the steps: line 335 has skipped every blank text before the
\* call.
NextClient ==
    \/ MapEndpoint
    \/ FetchPage
    \/ CleanDocument
    \/ CleanHtml
    \/ SkipDocument
    \/ CallChunker
    \/ RemoveCodeBlocks(1)
    \/ ParseHeadingStructure(1)
    \/ ProcessSection(1)
    \/ MergeCodeBlocks(1)
    \/ ValidateChunkSizes(1)
    \/ AppendChunks
    \/ ReturnResult

SpecClient == InitClient /\ [][NextClient]_vars

(***************************************************************************)
(* Helpers of the properties                                               *)
(***************************************************************************)

NotSpace(ch) == ~IsSpace(ch)

\* s with every whitespace character deleted
Squeeze(s) == SelectSeq(s, NotSpace)

RECURSIVE EmbedsFrom(_, _, _, _)
\* the texts parts[i..], whitespace deleted, occur in text one after the
\* other, without overlap, from index pos on
EmbedsFrom(parts, i, text, pos) ==
    IF i > Len(parts) THEN TRUE
    ELSE LET part == Squeeze(parts[i])
             at == Find(text, pos, part)
         IN  at # 0 /\ EmbedsFrom(parts, i + 1, text, at + Len(part))

RECURSIVE IsSubseqFrom(_, _, _, _)
\* a[i..] can be obtained from b[j..] by deleting elements
IsSubseqFrom(a, i, b, j) ==
    IF i > Len(a) THEN TRUE
    ELSE IF j > Len(b) THEN FALSE
    ELSE IF a[i] = b[j] THEN IsSubseqFrom(a, i + 1, b, j + 1)
    ELSE IsSubseqFrom(a, i, b, j + 1)

IsHeadingLine(line) == StartsWith(line, <<"#", "#">>)

\* the first line of a text
FirstLine(s) == Split(s, <<"\n">>)[1]

\* the lines of a text that the parser takes for headings, in order
HeadingLines(text) == SelectSeq(Trimmed(Split(text, <<"\n">>)), IsHeadingLine)

\* the heading lines that open a chunk of cs, in order
OpeningHeadings(cs) ==
    LET opens == SelectSeq(cs, IsHeadingLine)
    IN  [j \in 1..Len(opens) |-> FirstLine(opens[j])]

Done(c) == pc[c] = "done"

(***************************************************************************)
(* Properties                                                              *)
(***************************************************************************)

\* C1: every chunk chunk_text returns has a trimmed length of at least 50;
\* a shorter chunk is discarded: it is neither returned nor merged into a
\* neighbour, so the returned chunks are exactly the trimmed chunks of
\* length >= 50 that were handed to validation.
C1_SizeFloor ==
    \A c \in Calls : Done(c) =>
        LET handed == Trimmed(restored_chunks[Frame(c)])
        IN  /\ \A k \in 1..Len(ret[c]) : Len(Strip(ret[c][k])) >= 50
            /\ \A k \in 1..Len(ret[c]) : \E j \in 1..Len(handed) : ret[c][k] = handed[j]
            /\ Len(ret[c]) = Cardinality({j \in 1..Len(handed) : Len(handed[j]) >= 50})

\* C1 witness: a call returned a chunk and discarded a shorter one
C1_Witness ==
    \E c \in Calls :
        /\ Done(c)
        /\ Len(ret[c]) >= 1
        /\ \E j \in 1..Len(restored_chunks[Frame(c)]) :
               LET ch == Strip(restored_chunks[Frame(c)][j])
               IN  ch # <<>> /\ Len(ch) < 50



\* the indexes of the triple-backtick blocks of call c
FencedBlocks(c) ==
    {k \in 1..Len(code_blocks[Frame(c)]) : code_blocks[Frame(c)][k].type = "multiline"}

\* the number of occurrences of p in s, counted as str.count counts them
RECURSIVE Occurrences(_, _, _)
Occurrences(s, from, p) ==
    LET at == Find(s, from, p)
    IN  IF at = 0 THEN 0 ELSE 1 + Occurrences(s, at + Len(p), p)

\* the chunks handed to code restoration that hold the placeholder of block k
Holders(c, k) ==
    {j \in 1..Len(split_chunks[Frame(c)]) :
        Contains(split_chunks[Frame(c)][j], code_blocks[Frame(c)][k].placeholder)}

C3_DocumentOrder ==
    \A c \in Calls : Done(c) =>
        LET split == split_chunks[Frame(c)]
            restored == restored_chunks[Frame(c)]
        IN  /\ EmbedsFrom(split, 1, Squeeze(text_without_code[Frame(c)]), 1)
            /\ Len(restored) = Len(split)
            /\ \A j \in 1..Len(split) :
                  restored[j] = RestoreChunk(split[j], code_blocks[Frame(c)], 1)
            /\ IsSubseqFrom(ret[c], 1, Trimmed(restored), 1)
            /\ IsSubseqFrom(OpeningHeadings(ret[c]), 1, HeadingLines(arg[c]), 1)

\* C3 witness: two returned chunks open with different headings
C3_Witness ==
    \E c \in Calls :
        /\ Done(c)
        /\ \E i, j \in 1..Len(OpeningHeadings(ret[c])) :
              i < j /\ OpeningHeadings(ret[c])[i] # OpeningHeadings(ret[c])[j]


\* C4: chunk_text is deterministic and keeps no state between calls: any
\* two finished calls with the same text, whatever other calls ran before
\* or in between, returned the same chunk sequence, which is the value of
\* the function of the text alone.
C4_Deterministic ==
    /\ \A a, b \in Calls :
          Done(a) /\ Done(b) /\ arg[a] = arg[b] => ret[a] = ret[b]
    /\ \A c \in Calls : Done(c) => ret[c] = chunk_text(arg[c])

\* C4 witness: two calls with the same text have both returned chunks
C4_Witness ==
    \E a, b \in Calls :
        /\ a # b
        /\ Done(a) /\ Done(b)
        /\ arg[a] = arg[b]
        /\ Len(ret[a]) >= 1


\* a call on an empty or whitespace-only text has touched none of the locals
\* that code extraction, parsing and splitting bind
Untouched(c) ==
    /\ code_blocks[Frame(c)] = <<>>
    /\ text_without_code[Frame(c)] = <<>>
    /\ sections[Frame(c)] = <<>>
    /\ idx[Frame(c)] = 0
    /\ chunks[Frame(c)] = <<>>
    /\ split_chunks[Frame(c)] = <<>>
    /\ restored_chunks[Frame(c)] = <<>>

\* the stage of a call: every step but the loop over sections moves a call
\* to a later stage
Stage(p) ==
    CASE p = "idle" -> 0
      [] p = "start" -> 1
      [] p = "parse" -> 2
      [] p = "process" -> 3
      [] p = "validate" -> 4
      [] p = "done" -> 5

\* the locals of call c
Locals(c) ==
    <<code_blocks[Frame(c)], text_without_code[Frame(c)], sections[Frame(c)],
      idx[Frame(c)], chunks[Frame(c)], split_chunks[Frame(c)],
      restored_chunks[Frame(c)]>>

\* C5: chunk_text is total.  Every step of a call either moves it to a
\* later stage or moves the loop to the next of the finitely many sections
\* that parsing fixed, so a call takes finitely many steps; the position of
\* the loop never leaves the sections; what a finished call returned is a
\* list of strings.  A call on an empty or whitespace-only text goes from
\* its start straight to the return of the empty list, before code
\* extraction or parsing.
C5_TotalAndBlank ==
    /\ [](\A c \in Calls :
            /\ pc[c] = "process" => idx[Frame(c)] \in 1..(Len(sections[Frame(c)]) + 1)
            /\ Done(c) =>
                  /\ ret[c] = [k \in 1..Len(ret[c]) |-> ret[c][k]]
                  /\ \A k \in 1..Len(ret[c]) :
                        ret[c][k] = [n \in 1..Len(ret[c][k]) |-> ret[c][k][n]]
            /\ Squeeze(arg[c]) = <<>> =>
                  /\ pc[c] \in {"idle", "start", "done"}
                  /\ Untouched(c)
                  /\ Done(c) => ret[c] = <<>>)
    /\ [][\A c \in Calls :
            pc'[c] # pc[c] \/ Locals(c)' # Locals(c) =>
                \/ Stage(pc'[c]) > Stage(pc[c])
                \/ /\ pc[c] = "process" /\ pc'[c] = "process"
                   /\ sections'[Frame(c)] = sections[Frame(c)]
                   /\ idx'[Frame(c)] = idx[Frame(c)] + 1
                   /\ idx'[Frame(c)] <= Len(sections[Frame(c)]) + 1]_vars

\* C5 witness: a call on a whitespace-only text has returned
C5_Witness ==
    \E c \in Calls :
        /\ Done(c)
        /\ arg[c] # <<>>
        /\ Squeeze(arg[c]) = <<>>
        /\ ret[c] = <<>>


\* the sections of call c that the loop has processed
Processed(c) == 1..Len(section_chunks[Frame(c)])

\* the text holds '.', '!' or '?' followed by whitespace
HasSentenceBreak(s) == \E i \in 1..Len(s) : SentenceBreakAt(s, i)

\* the text up to its first sentence break
FirstSentence(s) == SentenceSplitFrom(s, 1)[1]

\* cs is content cut at sentence breaks and packed greedily under limit:
\* nothing but whitespace is lost, a chunk over the limit is one sentence,
\* and no chunk had room for the sentence that opens the next one
PackedWithin(cs, content, limit) ==
    /\ cs # <<>>
    /\ Squeeze(Join(cs, <<>>)) = Squeeze(content)
    /\ \A k \in 1..Len(cs) : Len(cs[k]) > limit => ~HasSentenceBreak(cs[k])
    /\ \A k \in 1..(Len(cs) - 1) :
          Len(cs[k]) + 1 + Len(FirstSentence(cs[k + 1])) > limit

FirstCeiling(level) ==
    CASE level = 0 -> 1500
      [] level = 1 -> 2000
      [] level = 2 -> 2000
      [] level = 3 -> 1500
      [] OTHER -> 1000

\* the fallback ceiling of a heading level, under which a section is split
FallbackCeiling(level) ==
    CASE level = 0 -> 1500
      [] level = 1 -> 2000
      [] level = 2 -> 1500
      [] level = 3 -> 1200
      [] OTHER -> 800

\* C8: a section produced by parsing whose content is no longer than the
\* first ceiling of its level yields exactly one chunk, its content
\* verbatim; a longer one is split under the fallback ceiling of its level.
C8_CeilingsByLevel ==
    \A c \in Calls : \A i \in Processed(c) :
        LET section == sections[Frame(c)][i]
            content == Strip(section.content)
            cs == section_chunks[Frame(c)][i]
        IN  IF Len(content) <= FirstCeiling(section.level)
            THEN cs = <<content>>
            ELSE PackedWithin(cs, content, FallbackCeiling(section.level))

\* C8 witness: a level-3 section longer than its first ceiling of 1500
\* characters was split into chunks under its fallback ceiling of 1200
C8_Witness ==
    \E c \in Calls : \E i \in Processed(c) :
        LET section == sections[Frame(c)][i]
            content == Strip(section.content)
            cs == section_chunks[Frame(c)][i]
        IN  /\ section.level = 3
            /\ Len(content) > 1500 /\ Len(content) <= 2000
            /\ Len(cs) >= 2
            /\ \A k \in 1..Len(cs) : Len(cs[k]) <= 1200


\* the number of '#' characters a line starts with
LeadingHashes(line) ==
    LET n == FindNotChar(line, 1, {"#"})
    IN  IF n = 0 THEN Len(line) ELSE n - 1

\* the line is one or more '#' characters followed by whitespace
IsMarkdownHeading(line) ==
    /\ LeadingHashes(line) >= 1
    /\ Len(line) > LeadingHashes(line)
    /\ IsSpace(line[LeadingHashes(line) + 1])

IsHeadingSection(section) == section.level # 0

\* the sections of call c that a heading line started, in order
HeadingSections(c) == SelectSeq(sections[Frame(c)], IsHeadingSection)

\* the lines '#'... followed by whitespace of the text that call c parsed
MarkdownHeadings(c) ==
    SelectSeq(Trimmed(Split(text_without_code[Frame(c)], <<"\n">>)),
              IsMarkdownHeading)

\* C7 as stated: the sections that parsing starts are, in order, the lines
\* made of one or more '#' followed by whitespace, a single '#' included;
\* the level of each is the number of leading '#' of its line and its title
\* the trimmed remainder; no other line starts a section.
C7_HeadingLinesStartSections ==
    \A c \in Calls : pc[c] \in {"process", "validate", "done"} =>
        LET heads == MarkdownHeadings(c)
            secs == HeadingSections(c)
        IN  /\ Len(secs) = Len(heads)
            /\ \A k \in 1..Len(secs) :
                  /\ secs[k].level = LeadingHashes(heads[k])
                  /\ secs[k].title =
                        Strip(SubSeq(heads[k], LeadingHashes(heads[k]) + 1,
                                     Len(heads[k])))

\* C9 as stated: restoration is a complete round trip: no returned chunk
\* holds a placeholder generated during the call, and the original text of
\* every code span, delimiters included, appears unbroken in the chunk that
\* its placeholder stood in, when that chunk is returned.
C9_RoundTrip ==
    \A c \in Calls : Done(c) =>
        \A k \in 1..Len(code_blocks[Frame(c)]) :
            /\ \A r \in 1..Len(ret[c]) :
                  ~Contains(ret[c][r], code_blocks[Frame(c)][k].placeholder)
            /\ \A j \in Holders(c, k) :
                  Len(Strip(restored_chunks[Frame(c)][j])) >= 50 =>
                      Contains(restored_chunks[Frame(c)][j],
                               code_blocks[Frame(c)][k].content)


RECURSIVE Strings(_, _)
\* the text of the elements elements[i..] with the tags left out: every
\* string of the document, in document order
Strings(elements, i) ==
    IF i > Len(elements) THEN <<>>
    ELSE (IF elements[i].kind = "text" THEN elements[i].text
          ELSE Strings(elements[i].children, 1)) \o Strings(elements, i + 1)

\* no '<', one or more characters other than '>', then '>' is left in s
TagFree(s) ==
    \A i, j \in 1..Len(s) :
        ~(/\ j > i + 1
          /\ s[i] = "<"
          /\ s[j] = ">"
          /\ \A k \in (i + 1)..(j - 1) : s[k] # ">")

\* the only whitespace of s is single spaces between other characters
SingleSpaced(s) ==
    \A k \in 1..Len(s) :
        IsSpace(s[k]) =>
            /\ s[k] = " "
            /\ 1 < k /\ k < Len(s)
            /\ ~IsSpace(s[k + 1])

\* C10: clean_html always returns a string and never raises.  An empty or
\* whitespace-only argument, or None, returns "" from the start, with no
\* parse; an exception raised by any statement of the pipeline is caught and
\* the result is then the regex fallback: the argument with every <...> tag
\* removed, every run of whitespace collapsed to one space, trimmed.
C10_AlwaysReturnsText ==
    /\ step = "done" => cleaned # None
    /\ soup.raised => step = "done" /\ caught # "none"
    /\ html_content = None \/ Squeeze(html_content) = <<>> =>
          /\ step \in {"idle", "start", "done"}
          /\ soup = NoSoup
          /\ caught = "none"
          /\ step = "done" => cleaned = <<>>
    /\ caught # "none" =>
          /\ step = "done"
          /\ TagFree(cleaned)
          /\ SingleSpaced(cleaned)
          /\ \A d \in Documents :
                html_content \in {Markup(d, 1), UnknownMarkedSection \o Markup(d, 1)} =>
                    Squeeze(cleaned) = Squeeze(Strings(d, 1))

\* C10 witness: the parser rejected the markup and the call returned the
\* text of the markup, tags removed
C10_Witness ==
    /\ step = "done"
    /\ caught = "start"
    /\ soup.raised
    /\ cleaned # <<>>
    /\ \E i \in 1..Len(html_content) : html_content[i] = "<"

\* the texts of the strings that sit inside a <script> or <style> element
ScriptNames == {<<"s", "c", "r", "i", "p", "t">>, <<"s", "t", "y", "l", "e">>}

RECURSIVE ScriptTexts(_, _)
ScriptTexts(elements, i) ==
    IF i > Len(elements) THEN {}
    ELSE (IF elements[i].kind = "text" THEN {}
          ELSE IF elements[i].name \in ScriptNames
               THEN {Strings(elements[i].children, 1)}
               ELSE ScriptTexts(elements[i].children, 1))
         \cup ScriptTexts(elements, i + 1)

\* the documents whose markup, accepted or rejected by the parser, is the
\* argument of the call
Sources ==
    {d \in Documents :
        html_content \in {Markup(d, 1), UnknownMarkedSection \o Markup(d, 1)}}

\* C11: whichever path produced the result of clean_html, the normal
\* pipeline or the fallback, no text located inside a <script> or <style>
\* element of the argument appears in it.
C11_NoScriptText ==
    step = "done" =>
        \A d \in Sources :
            \A t \in ScriptTexts(d, 1) : t # <<>> => ~Contains(cleaned, t)

\* C11 on the normal pipeline only, where remove_scripts has decomposed the
\* elements before any text is read
C11_PipelineDropsScripts ==
    step = "done" /\ caught = "none" =>
        \A d \in Sources :
            \A t \in ScriptTexts(d, 1) : t # <<>> => ~Contains(cleaned, t)

RECURSIVE Elems(_, _, _)
\* the elements of a document, each with the elements it is nested in,
\* outermost first
Elems(elements, i, up) ==
    IF i > Len(elements) THEN {}
    ELSE (IF elements[i].kind = "text" THEN {}
          ELSE {[el |-> elements[i], up |-> up]}
                   \cup Elems(elements[i].children, 1, Append(up, elements[i])))
         \cup Elems(elements, i + 1, up)

\* the text of an element as get_text().strip() reads it from the parsed
\* document
ElementText(el) == Strip(Strings(el.children, 1))

\* a container that _handle_wordpress_elements collapses to its text
IsNoteBox(el) ==
    /\ el.name = <<"d", "i", "v">>
    /\ \E k \in 1..Len(el.class) : el.class[k] \in NoteClasses
    /\ \E keyword \in NoteKeywords : Contains(Lower(Strings(el.children, 1)), keyword)
    /\ ElementText(el) # <<>>

InNoteBox(o) == \E k \in 1..Len(o.up) : IsNoteBox(o.up[k])
InListItem(o) == \E k \in 1..Len(o.up) : o.up[k].name = <<"l", "i">>
InLink(o) == \E k \in 1..Len(o.up) : o.up[k].name = <<"a">>
InHeading(o) == \E k \in 1..Len(o.up) : o.up[k].name \in HeadingNames

\* the heading elements of a document that have text
TextHeadings(d) ==
    {o \in Elems(d, 1, <<>>) : o.el.name \in HeadingNames /\ ElementText(o.el) # <<>>}

\* n '#' characters, one space, the heading text
HeadingLine(el) ==
    Fill("#", HeadingLevel(el.name)) \o <<" ">> \o ElementText(el)

\* line is one of the lines of text
HasLine(text, line) ==
    \E k \in 1..Len(Split(text, <<"\n">>)) : Split(text, <<"\n">>)[k] = line

Links(d) == {o \in Elems(d, 1, <<>>) : o.el.name = <<"a">>}

\* a link that no earlier conversion has flattened: it is not nested in a
\* note container, a heading or a list item
IsFreeLink(o) == ~InNoteBox(o) /\ ~InHeading(o) /\ ~InListItem(o)

\* "{link text} ({href})"
LinkWithHref(el) == ElementText(el) \o <<" ", "(">> \o el.href \o <<")">>

\* " ({href})", the part of a rendering that carries the href
HrefPart(href) == <<" ", "(">> \o href \o <<")">>

OrderedLists(d) ==
    {o \in Elems(d, 1, <<>>) : o.el.name = <<"o", "l">> /\ ~InListItem(o)}

\* the items of a list that have text, in document order
TextItems(el) ==
    SelectSeq(el.children,
              LAMBDA item : /\ item.kind = "tag"
                            /\ item.name = <<"l", "i">>
                            /\ ElementText(item) # <<>>)

\* C14: clean_html prefixes each item of an ordered list with its 1-based
\* position, so that the non-empty items of one list are numbered
\* consecutively from 1 ('1.', '2.', ...), also when the list contains empty
\* items or nested lists.  It is read on the path where the conversions have
\* run.
C14_ConsecutiveNumbers ==
    step = "done" /\ caught = "none" =>
        \A d \in Sources :
            \A o \in OrderedLists(d) :
                \A k \in 1..Len(TextItems(o.el)) :
                    HasLine(cleaned,
                            Digits(k) \o <<".", " ">> \o ElementText(TextItems(o.el)[k]))

\* the lines of text, between its line ends
Lines(text) == Split(text, <<"\n">>)

\* C15: the output of the whitespace normalisation of clean_html has no line
\* with leading or trailing whitespace, never holds three consecutive
\* newlines (two consecutive blank lines), has no leading or trailing blank
\* line, and applying the normalisation to it changes nothing.
C15_NormalForm ==
    step = "done" /\ caught = "none" =>
        /\ \A k \in 1..Len(Lines(cleaned)) : Strip(Lines(cleaned)[k]) = Lines(cleaned)[k]
        /\ ~Contains(cleaned, <<"\n", "\n", "\n">>)
        /\ cleaned # <<>> => cleaned[1] # "\n" /\ cleaned[Len(cleaned)] # "\n"
        /\ normalize_whitespace(cleaned) = cleaned

\* C15 witness: a text with leading whitespace and blank lines has been
\* normalised, and one blank line is left inside the output
C15_Witness ==
    /\ step = "done"
    /\ caught = "none"
    /\ html_content # None
    /\ Len(html_content) > 0
    /\ html_content[1] \in Whitespace
    /\ Contains(html_content, <<"\n", "\t", "\n">>) \/ Contains(html_content, <<"\n", " ", "\n">>)
    /\ Contains(cleaned, <<"a", "\n", "\n", "a">>)

\* the blocks of code of a document: the text of its <pre> elements, without
\* the whitespace around it
PreTexts(d) ==
    {ElementText(o.el) :
        o \in {e \in Elems(d, 1, <<>>) : e.el.name = <<"p", "r", "e">>}} \ {<<>>}

\* C16: in the pipeline chunk_text(clean_html(html)) a block of code is
\* atomic: the text of a <pre> element, multi-line code included, is extracted
\* by the chunker as one code span, and it is found contiguous and unaltered
\* inside a single returned chunk.  It is read on the path where the
\* conversions have run.
C16_CodeBlocksAtomic ==
    client_pc = "chunk" /\ pc[1] = "done" /\ caught = "none" =>
        \A d \in Sources :
            \A t \in PreTexts(d) :
                /\ \E j \in 1..Len(code_blocks[Frame(1)]) :
                      Contains(code_blocks[Frame(1)][j].content, t)
                /\ \E k \in 1..Len(ret[1]) : Contains(ret[1][k], t)

\* the block of code reaches the chunker unaltered, so the split is the
\* chunker's
C16_CodeReachesChunker ==
    client_pc = "chunk" /\ caught = "none" =>
        \A d \in Sources : \A t \in PreTexts(d) : Contains(arg[1], t)

RECURSIVE Entries(_, _)
\* the entries that the returns calls[j..] of chunk_text stand for: one per
\* chunk, with the id, the text and the metadata of the claim
Entries(calls, j) ==
    IF j > Len(calls) THEN <<>>
    ELSE [i \in 1..Len(calls[j].chunks) |->
             [id |-> docs[calls[j].doc].id \o <<"#", "c">> \o Digits(i - 1),
              document |-> calls[j].chunks[i],
              metadata |-> [title |-> docs[calls[j].doc].title,
                            url |-> docs[calls[j].doc].url]]]
         \o Entries(calls, j + 1)

\* C17: process_documentation returns ids, documents and metadatas of equal
\* length, equal to total_chunks, ordered by document and then by chunk; the
\* entry of the i-th chunk (from 0) that chunk_text returned for document d
\* has the id '{d.id}#c{i}', the chunk as its text and {title: d.title,
\* url: d.url} as its metadata.
C17_EntriesPerChunk ==
    client_pc = "done" =>
        /\ Len(result.ids) = result.total_chunks
        /\ Len(result.documents) = result.total_chunks
        /\ Len(result.metadatas) = result.total_chunks
        /\ Len(Entries(returned, 1)) = result.total_chunks
        /\ \A j \in 1..(Len(returned) - 1) : returned[j].doc < returned[j + 1].doc
        /\ \A k \in 1..result.total_chunks :
              /\ result.ids[k] = Entries(returned, 1)[k].id
              /\ result.documents[k] = Entries(returned, 1)[k].document
              /\ result.metadatas[k] = Entries(returned, 1)[k].metadata

\* C17 witness: the call has returned the entries of two documents, one of
\* them with two chunks
C17_Witness ==
    /\ client_pc = "done"
    /\ Len(returned) >= 2
    /\ \E j \in 1..Len(returned) : Len(returned[j].chunks) >= 2
    /\ result.total_chunks >= 3

\* C18: in process_documentation a document whose cleaned content is empty
\* or whitespace-only is skipped without error: chunk_text is not called for
\* it, it adds no id, document or metadata, the entries of the other
\* documents stay as they are (the step that skips changes nothing but the
\* position in the loop), and total_docs still counts it.
C18_BlankDocumentsSkipped ==
    /\ [](/\ \A c \in Calls : pc[c] # "idle" => Squeeze(arg[c]) # <<>>
          /\ doc >= 1 /\ step = "done" /\ client_pc \in {"loop", "done", "raised"} =>
                (Squeeze(cleaned) = <<>> <=> doc \notin chunked)
          /\ \A j \in 1..Len(returned) : returned[j].doc \in chunked
          /\ client_pc = "raised" => doc = 0 \/ doc = Len(docs)
          /\ client_pc = "done" =>
                /\ result.total_docs = Len(docs)
                /\ result.total_chunks = Len(Entries(returned, 1))
                /\ chunked \subseteq 1..Len(docs))
    /\ [][client_pc = "clean" /\ step = "done" /\ Squeeze(cleaned) = <<>> =>
              /\ client_pc' = "loop"
              /\ <<ids, documents, metadatas, error, chunked, returned, docs, doc>>' =
                     <<ids, documents, metadatas, error, chunked, returned, docs, doc>>]_vars

\* C18 witness: the call has returned, a document between two others was
\* skipped, and total_docs counts all three
C18_Witness ==
    /\ client_pc = "done"
    /\ result.total_docs >= 3
    /\ \E j \in 2..(Len(docs) - 1) :
          j \notin chunked /\ (j - 1) \in chunked /\ (j + 1) \in chunked
    /\ result.total_chunks >= 2

\* the exceptions of a page request that stand for a transient error: no
\* answer, HTTP 429, HTTP 5xx
IsTransient(e) ==
    \/ e.type = "RequestError"
    \/ e.type = "HTTPStatusError" /\ (e.status_code = 429 \/ e.status_code >= 500)

\* C20: the paginated fetch retries a page request after a transient error
\* (HTTP 429, HTTP 5xx, or a network error) and does not abort the whole
\* fetch: no transient error of a page request ends the call.
C20_TransientErrorsRetried ==
    IsTransient(error) => client_pc # "raised"


-----------------------------------------------------------------------------
\* LLMServiceFactory.execute_operation (llm_service_factory.py)

\* llm_operation.py: the members of the enum LLMOperation
LLMOperation == {"EMBEDDING", "COMPLETION"}

\* llm_provider.py: the members of the enum LLMProvider
LLMProvider == {"OPENAI"}

\* line 33: the member named by the default `provider = LLMProvider.GROQ`
DefaultProvider == "GROQ"

\* a Python value passed as an argument: a member of an enum, None, or a str
Value(kind, name) == [kind |-> kind, name |-> name]

\* the values a caller passes as operation
Operations ==
    {Value("LLMOperation", m) : m \in LLMOperation}
        \cup {Value("NoneType", "None"), Value("str", "unsupported_operation")}

\* no argument given for provider
Omitted == Value("omitted", "omitted")

\* the values a caller passes as provider
Providers ==
    {Value("LLMProvider", m) : m \in LLMProvider}
        \cup {Omitted, Value("NoneType", "None"), Value("str", "unsupported_provider")}

\* the keyword arguments a caller passes
KwargSets == {{}, {"text"}, {"system_prompt", "user_prompt"}}

\* the dicts given to __init__ as clients: some providers, each with a
\* client object or with None
ClientDicts == UNION {[S -> {"client", "None"}] : S \in SUBSET LLMProvider}

\* lines 22-25: self._operation_handlers
OperationHandlers ==
    [EMBEDDING |-> "_handle_embedding", COMPLETION |-> "_handle_completion"]

\* lines 73-91: the positional parameters of a handler after client, and the
\* client method it calls
Handlers ==
    [_handle_embedding |->
         [required |-> {"text"}, method |-> "generate_embedding"],
     _handle_completion |->
         [required |-> {"system_prompt", "user_prompt"}, method |-> "generate_completion"]]

\* an exception
Exc(type, message) == [type |-> type, message |-> message]

\* what a call leaves behind: the exception raised and the client methods
\* called
Outcome(exception, called) == [raised |-> exception, invoked |-> called]

\* lines 47-64 and 66-71: the body of execute_operation
execute_operation(op, prov, kw, registered) ==
    IF op.kind # "LLMOperation"
    THEN Outcome(Exc("TypeError", "Unsupported operation"), <<>>)
    ELSE IF prov.kind # "LLMProvider"
    THEN Outcome(Exc("TypeError", "No client available for provider"), <<>>)
    ELSE IF op.name \notin DOMAIN OperationHandlers
    THEN Outcome(Exc("ValueError", "Unsupported operation"), <<>>)
    ELSE IF prov.name \notin DOMAIN registered \/ registered[prov.name] = "None"
    THEN Outcome(Exc("ValueError", "No client available for provider"), <<>>)
    ELSE LET handler == Handlers[OperationHandlers[op.name]]
         IN  IF ~(handler.required \subseteq kw)
             THEN Outcome(Exc("TypeError", "missing required positional argument"), <<>>)
             ELSE Outcome(Exc("none", "none"),
                          <<[client |-> prov.name, method |-> handler.method]>>)

\* lines 30-35: the def statement evaluates the default LLMProvider.GROQ when
\* the class body runs; an enum without that member raises AttributeError
\* and the module is not imported.  With the member, an omitted provider is
\* the default.
call_execute_operation(op, prov, kw, registered) ==
    IF DefaultProvider \notin LLMProvider
    THEN Outcome(Exc("AttributeError", DefaultProvider), <<>>)
    ELSE execute_operation(op,
                           IF prov = Omitted
                           THEN Value("LLMProvider", DefaultProvider) ELSE prov,
                           kw, registered)

\* a caller is about to import the module, build a factory over a dict of
\* clients and call execute_operation
InitFactory ==
    /\ ChunkerIdle
    /\ CleanerIdle
    /\ ClientIdle
    /\ PackIdle
    /\ IngestIdle
    /\ factory_pc = "call"
    /\ operation \in Operations
    /\ provider \in Providers
    /\ kwargs \in KwargSets
    /\ clients \in ClientDicts
    /\ raised = Exc("none", "none")
    /\ invoked = <<>>

\* LLMServiceFactory(clients).execute_operation(operation, provider, **kwargs)
ExecuteOperation ==
    /\ factory_pc = "call"
    /\ LET out == call_execute_operation(operation, provider, kwargs, clients)
       IN  /\ raised' = out.raised
           /\ invoked' = out.invoked
    /\ factory_pc' = "done"
    /\ UNCHANGED <<operation, provider, kwargs, clients,
                   chunker_vars, cleaner_vars, client_vars,
                   pack_vars, ingest_vars>>

NextFactory == ExecuteOperation

SpecFactory == InitFactory /\ [][NextFactory]_vars

\* the operation is not a supported LLMOperation
BadOperation == operation.kind # "LLMOperation"

\* the provider is None, not an LLMProvider, or has no registered client
BadProvider ==
    \/ provider.kind \in {"NoneType", "str"}
    \/ provider.kind = "LLMProvider" /\ provider.name \notin DOMAIN clients

\* C19: execute_operation raises ValueError ('Unsupported operation') when
\* the operation is not a supported LLMOperation (None and a plain string
\* included), and ValueError ('No client available for provider') when the
\* provider is None, not an LLMProvider, or has no registered client; in
\* every such case no client method is invoked.
C19_RejectsWithValueError ==
    factory_pc = "done" =>
        /\ BadOperation =>
              raised = Exc("ValueError", "Unsupported operation") /\ invoked = <<>>
        /\ ~BadOperation /\ BadProvider =>
              raised = Exc("ValueError", "No client available for provider")
                  /\ invoked = <<>>

\* C19, the body alone (lines 47-64 run with a provider given): a value that
\* is not an LLMOperation, and after it a value that is not an LLMProvider,
\* is answered with TypeError; only the provider without a registered client
\* is answered with ValueError; none of them reaches a client.
C19_BodyRaisesTypeError ==
    \A op \in Operations, prov \in Providers \ {Omitted},
       kw \in KwargSets, registered \in ClientDicts :
        LET out == execute_operation(op, prov, kw, registered)
        IN  /\ op.kind # "LLMOperation" =>
                  out = Outcome(Exc("TypeError", "Unsupported operation"), <<>>)
            /\ op.kind = "LLMOperation" /\ prov.kind # "LLMProvider" =>
                  out = Outcome(Exc("TypeError", "No client available for provider"), <<>>)
            /\ op.kind = "LLMOperation" /\ prov.kind = "LLMProvider"
                   /\ prov.name \notin DOMAIN registered =>
                  out = Outcome(Exc("ValueError", "No client available for provider"), <<>>)

\* C19: whatever the arguments, the call ends with the AttributeError of the
\* def statement and no client method is invoked
C19_ImportFails ==
    factory_pc = "done" => raised.type = "AttributeError" /\ invoked = <<>>

-----------------------------------------------------------------------------
\* chunk_text over texts made of code delimiters

\* the pieces a text is made of: a triple backtick, a backtick, a letter, a
\* space and a newline
CodePieces == {Fence, <<Backtick>>, <<"a">>, <<" ">>, <<"\n">>}

\* the most pieces in a text
MaxPieces == 6

\* the texts of at most MaxPieces pieces
CodeTexts ==
    {Join(ps, <<>>) : ps \in UNION {[1..n -> CodePieces] : n \in 0..MaxPieces}}

\* one call of chunk_text(text) with such a text
InitCode ==
    /\ CleanerIdle
    /\ ClientIdle
    /\ FactoryIdle
    /\ PackIdle
    /\ IngestIdle
    /\ pc = [c \in Calls |-> IF c = 1 THEN "start" ELSE "idle"]
    /\ \E t \in CodeTexts : arg = [c \in Calls |-> IF c = 1 THEN t ELSE <<>>]
    /\ ret = Idle
    /\ code_blocks = Idle
    /\ text_without_code = Idle
    /\ sections = Idle
    /\ idx = [c \in Calls |-> 0]
    /\ chunks = Idle
    /\ section_chunks = Idle
    /\ split_chunks = Idle
    /\ restored_chunks = Idle

SpecCode == InitCode /\ [][Next]_vars

RECURSIVE Spans(_, _, _, _, _)
\* where the spans of the table blocks[k..] lie: the gap before the
\* placeholder of a block in `replaced` (read from index tt on) is as long
\* as the gap before its span in the text (read from index ta on).  A span
\* is [p, b, e]: the index of its placeholder in `replaced`, its first and
\* its last index in the text; p = 0 when the placeholder is missing.
Spans(replaced, blocks, k, tt, ta) ==
    IF k > Len(blocks) THEN <<>>
    ELSE LET p == Find(replaced, tt, blocks[k].placeholder)
             b == ta + (p - tt)
             e == b + Len(blocks[k].content) - 1
         IN  IF p = 0 THEN <<[p |-> 0, b |-> 0, e |-> 0]>>
             ELSE <<[p |-> p, b |-> b, e |-> e]>>
                      \o Spans(replaced, blocks, k + 1,
                               p + Len(blocks[k].placeholder), e + 1)

\* the triple-backtick alternative matches text[b..e]: it opens and closes
\* with a triple backtick and has no backtick in between
IsFencedSpan(text, b, e) ==
    /\ e >= b + 5
    /\ SubSeq(text, b, b + 2) = Fence
    /\ SubSeq(text, e - 2, e) = Fence
    /\ \A i \in (b + 3)..(e - 3) : text[i] # Backtick

\* the inline alternative matches text[b..e]: a backtick, one or more
\* characters that are neither a backtick nor a newline, a backtick
IsInlineSpan(text, b, e) ==
    /\ e >= b + 2
    /\ text[b] = Backtick
    /\ text[e] = Backtick
    /\ \A i \in (b + 1)..(e - 1) : text[i] \notin {Backtick, "\n"}

\* the pattern matches at index b of the text
MatchesAt(text, b) ==
    \E e \in b..Len(text) : IsFencedSpan(text, b, e) \/ IsInlineSpan(text, b, e)

\* C21: code extraction scans left to right with one pattern whose
\* triple-backtick alternative is tried before the inline one; the k-th
\* match (from 0, both kinds counted together) is replaced by
\* '__CODE_BLOCK_k__' when it starts with a triple backtick and by
\* '__INLINE_CODE_k__' otherwise; the recorded content is the matched text
\* with its delimiters; an inline span holds no newline; the placeholders of
\* one pass are pairwise distinct.
C21_ExtractionInScanOrder ==
    \A c \in Calls :
      pc[c] \in {"parse", "process", "validate", "done"} /\ Squeeze(arg[c]) # <<>> =>
        LET text == arg[c]
            blocks == code_blocks[Frame(c)]
            replaced == text_without_code[Frame(c)]
            n == Len(blocks)
            spans == Spans(replaced, blocks, 1, 1, 1)
            \* the text before span 1 (k = 0), after span k, up to the next span
            gap(k) == SubSeq(text,
                             IF k = 0 THEN 1 ELSE spans[k].e + 1,
                             IF k = n THEN Len(text) ELSE spans[k + 1].b - 1)
            kept(k) == SubSeq(replaced,
                              IF k = 0 THEN 1
                              ELSE spans[k].p + Len(blocks[k].placeholder),
                              IF k = n THEN Len(replaced) ELSE spans[k + 1].p - 1)
        IN  /\ Len(spans) = n
            /\ \A k \in 1..n :
                  /\ spans[k].p >= 1 /\ spans[k].b >= 1 /\ spans[k].e <= Len(text)
                  \* the content is the matched text, delimiters included
                  /\ blocks[k].content = SubSeq(text, spans[k].b, spans[k].e)
                  \* a triple-backtick match where one starts, an inline
                  \* match otherwise; the index counts both kinds
                  /\ IF SubSeq(text, spans[k].b, spans[k].b + 2) = Fence
                     THEN /\ IsFencedSpan(text, spans[k].b, spans[k].e)
                          /\ blocks[k].placeholder = CodeBlockPlaceholder(k - 1)
                          /\ blocks[k].type = "multiline"
                     ELSE /\ IsInlineSpan(text, spans[k].b, spans[k].e)
                          /\ blocks[k].placeholder = InlineCodePlaceholder(k - 1)
                          /\ blocks[k].type = "inline"
                          /\ \A i \in 1..Len(blocks[k].content) :
                                blocks[k].content[i] # "\n"
            \* left to right: the text before, between and after the spans
            \* is kept as it is, and no match starts in it
            /\ \A k \in 0..n :
                  /\ kept(k) = gap(k)
                  /\ \A i \in (IF k = 0 THEN 1 ELSE spans[k].e + 1)
                                ..(IF k = n THEN Len(text) ELSE spans[k + 1].b - 1) :
                        ~MatchesAt(text, i)
            /\ \A j, k \in 1..n : j # k => blocks[j].placeholder # blocks[k].placeholder

\* C21 witness: a pass that found a triple-backtick span and an inline span,
\* and left a backtick that opens no span
C21_Witness ==
    \E c \in Calls :
        /\ pc[c] = "done"
        /\ Len(code_blocks[Frame(c)]) = 2
        /\ code_blocks[Frame(c)][1].type = "inline"
        /\ code_blocks[Frame(c)][2].type = "multiline"
        /\ Contains(text_without_code[Frame(c)], <<Backtick>>)

-----------------------------------------------------------------------------
\* chunk_text over sections longer than every ceiling, with code in them

\* a fenced block with a heading-like line, a blank line and the end of a
\* sentence in its code
FencedCode ==
    Fence \o <<"\n", "#", "#", " ", "Z", "\n", "\n", "e", "n", "d", ".", " ", "x">>
        \o Fence

\* an inline span with the end of a sentence in its code
InlineCode == <<Backtick, "y", ".", " ", "z", Backtick>>

\* the heading lines put before a body; the title of two of them ends like
\* a sentence, one has code in its title
SplitHeadings ==
    { <<>>,
      <<"#", "#", " ", "L", "\n">>,
      <<"#", "#", "#", " ", "M", "?", "\n">>,
      <<"#", "#", "#", "#", " ", "N", ".", "\n">>,
      <<"#", "#", " ", "Q", " ">> \o InlineCode \o <<"\n">> }

\* bodies longer than every ceiling of _process_section
SplitBodies ==
    { \* code inside and between sentences
      LongSentence("p", 498) \o FencedCode \o <<" ">> \o LongSentence("p", 498)
          \o InlineCode \o <<" ">> \o Repeat(LongSentence("p", 498), 3),
      \* a first sentence longer than every fallback ceiling
      LongSentence("x", 1600) \o Repeat(LongSentence("q", 498), 2),
      \* a fenced block on a line of its own, then sentences
      FencedCode \o <<"\n">> \o Repeat(LongSentence("r", 498), 5),
      \* paragraphs separated by a blank line
      LongSentence("s", 498) \o <<"\n", "\n">> \o LongSentence("s", 498)
          \o <<"\n", "\n">> \o Repeat(LongSentence("s", 498), 3),
      \* sentences that end in code, on lines of their own
      Repeat(LongSentence("t", 398) \o InlineCode \o <<".", "\n">>, 6) }

\* what comes before the heading: nothing, or text without a heading
SplitPrefixes == {<<>>, Blocks[4]}

\* the input texts
SplitTexts ==
    {pre \o h \o b \o <<"\n">> :
        pre \in SplitPrefixes, h \in SplitHeadings, b \in SplitBodies}

\* one call of chunk_text(text) with such a text
InitSplit ==
    /\ CleanerIdle
    /\ ClientIdle
    /\ FactoryIdle
    /\ PackIdle
    /\ IngestIdle
    /\ pc = [c \in Calls |-> IF c = 1 THEN "start" ELSE "idle"]
    /\ \E t \in SplitTexts : arg = [c \in Calls |-> IF c = 1 THEN t ELSE <<>>]
    /\ ret = Idle
    /\ code_blocks = Idle
    /\ text_without_code = Idle
    /\ sections = Idle
    /\ idx = [c \in Calls |-> 0]
    /\ chunks = Idle
    /\ section_chunks = Idle
    /\ split_chunks = Idle
    /\ restored_chunks = Idle

\* the steps of the call; its text has a character that is no whitespace,
\* so the early return of lines 41-42 is not among them
StepSplit(c) ==
    \/ RemoveCodeBlocks(c)
    \/ ParseHeadingStructure(c)
    \/ ProcessSection(c)
    \/ MergeCodeBlocks(c)
    \/ ValidateChunkSizes(c)

NextSplit == StepSplit(1)

SpecSplit == InitSplit /\ [][NextSplit]_vars

\* the occurrences of p in the chunks cs[j..], counted together
RECURSIVE OccurrencesIn(_, _, _)
OccurrencesIn(cs, j, p) ==
    IF j > Len(cs) THEN 0 ELSE Occurrences(cs[j], 1, p) + OccurrencesIn(cs, j + 1, p)

\* C22: no splitting step cuts through an extracted code span.  Every
\* placeholder that code extraction put into the text is still whole after
\* heading parsing, paragraph packing and sentence splitting, and lies in
\* exactly one of the chunks handed to code restoration, once, also when its
\* code has heading-like lines, blank lines or a sentence end followed by
\* whitespace.
C22_PlaceholdersSurviveSplitting ==
    \A c \in Calls : pc[c] \in {"validate", "done"} =>
        \A k \in 1..Len(code_blocks[Frame(c)]) :
            LET p == code_blocks[Frame(c)][k].placeholder
            IN  /\ Occurrences(text_without_code[Frame(c)], 1, p) = 1
                /\ Cardinality(Holders(c, k)) = 1
                /\ OccurrencesIn(split_chunks[Frame(c)], 1, p) = 1

\* the code reads like a heading, has a blank line and the end of a
\* sentence followed by whitespace
LooksLikeText(code) ==
    /\ Contains(code, <<"\n", "#", "#", " ">>)
    /\ Contains(code, <<"\n", "\n">>)
    /\ Contains(code, <<".", " ">>)

\* C22 witness: a section was split into several chunks at sentence ends,
\* and one of them holds the placeholder of such a code span
C22_Witness ==
    \E c \in Calls :
        /\ pc[c] = "done"
        /\ \E s \in 1..Len(section_chunks[Frame(c)]) :
              /\ Len(section_chunks[Frame(c)][s]) >= 3
              /\ \E j \in 1..Len(section_chunks[Frame(c)][s]) :
                    \E k \in 1..Len(code_blocks[Frame(c)]) :
                        /\ LooksLikeText(code_blocks[Frame(c)][k].content)
                        /\ Contains(section_chunks[Frame(c)][s][j],
                                    code_blocks[Frame(c)][k].placeholder)

\* the lines of a text after which a blank line separates them from more
\* content of the same section: line i is not blank, line i + 1 is blank, and
\* the next line that is not blank is no heading line
BeforeParagraphBreak(lns) ==
    {i \in 1..Len(lns) :
        /\ Strip(lns[i]) # <<>>
        /\ i < Len(lns) /\ Strip(lns[i + 1]) = <<>>
        /\ \E k \in (i + 2)..Len(lns) :
              /\ Strip(lns[k]) # <<>>
              /\ ~IsHeadingLine(Strip(lns[k]))
              /\ \A j \in (i + 1)..(k - 1) : Strip(lns[j]) = <<>>}

\* C23: heading-structure parsing preserves blank lines inside a Section's
\* content: where a blank line separates two paragraphs of a section, the
\* content of the section still has that double newline after the first of
\* them when it reaches paragraph splitting.
C23_BlankLinesPreserved ==
    \A c \in Calls : pc[c] \in {"process", "validate", "done"} =>
        LET lns == Split(text_without_code[Frame(c)], <<"\n">>)
        IN  \A i \in BeforeParagraphBreak(lns) :
                \E s \in 1..Len(sections[Frame(c)]) :
                    Contains(sections[Frame(c)][s].content,
                             Strip(lns[i]) \o <<"\n", "\n">>)

\* C23: what the parser does instead.  No content of a parsed section has
\* two newlines in a row, so paragraph splitting finds one paragraph.
C23_NoBlankLineInContent ==
    \A c \in Calls : pc[c] \in {"process", "validate", "done"} =>
        \A s \in 1..Len(sections[Frame(c)]) :
            ~Contains(sections[Frame(c)][s].content, <<"\n", "\n">>)

-----------------------------------------------------------------------------
\* _chunk_by_paragraphs and _chunk_by_sentences called on their own

\* the pieces a text is made of: a word, a word that ends a sentence, and a
\* newline (two of them end a paragraph, one after a '.' ends a sentence)
PackPieces == {<<"a", "a">>, <<"b", ".">>, <<"\n">>}

\* the most pieces in a text
MaxPackPieces == 8

\* the texts of at most MaxPackPieces pieces
PackTexts ==
    {Join(ps, <<>>) : ps \in UNION {[1..n -> PackPieces] : n \in 0..MaxPackPieces}}

\* the values of max_size
PackSizes == {3, 6, 9}

\* a caller is about to call one of the two functions
InitPack ==
    /\ ChunkerIdle
    /\ CleanerIdle
    /\ ClientIdle
    /\ FactoryIdle
    /\ IngestIdle
    /\ pack_pc = "call"
    /\ pack_text \in PackTexts
    /\ pack_max_size \in PackSizes
    /\ pack_chunks = <<>>
    /\ pack_ret = <<>>

\* lines 214-242: _chunk_by_paragraphs(text, max_size)
ChunkByParagraphs ==
    /\ pack_pc = "call"
    /\ LET paragraphs == StripNonEmpty(Split(pack_text, <<"\n", "\n">>), 1)
           st == PackParagraphs([chunks |-> <<>>, current_chunk |-> <<>>],
                                paragraphs, 1, pack_max_size)
       IN  pack_chunks' = IF st.current_chunk # <<>>
                          THEN Append(st.chunks, Strip(st.current_chunk))
                          ELSE st.chunks
    /\ pack_ret' = chunk_by_paragraphs(pack_text, pack_max_size)
    /\ pack_pc' = "paragraphs"
    /\ UNCHANGED <<pack_text, pack_max_size, chunker_vars, cleaner_vars,
                   client_vars, factory_vars, ingest_vars>>

\* lines 256-280: _chunk_by_sentences(text, max_size)
ChunkBySentences ==
    /\ pack_pc = "call"
    /\ pack_ret' = chunk_by_sentences(pack_text, pack_max_size)
    /\ pack_pc' = "sentences"
    /\ UNCHANGED <<pack_text, pack_max_size, pack_chunks, chunker_vars,
                   cleaner_vars, client_vars, factory_vars, ingest_vars>>

NextPack == ChunkByParagraphs \/ ChunkBySentences

SpecPack == InitPack /\ [][NextPack]_vars

\* the units of paragraph packing: the pieces between double newlines,
\* trimmed, the blank ones left out
ParagraphUnits(text) == StripNonEmpty(Split(text, <<"\n", "\n">>), 1)

\* the units of sentence packing: the pieces between the whitespace runs
\* that follow '.', '!' or '?', trimmed, the blank ones left out
SentenceUnits(text) == StripNonEmpty(SentenceSplitFrom(text, 1), 1)

RECURSIVE IsGreedyPacking(_, _, _, _, _, _)
\* the chunks cs[j..] are the units[i..] packed greedily and in order: a
\* chunk is a run of units joined by sep; each unit of the run after the
\* first one fitted (buffer + sep + unit <= limit), and the unit after the
\* run did not fit
IsGreedyPacking(cs, j, units, i, sep, limit) ==
    IF j > Len(cs) THEN i > Len(units)
    ELSE \E n \in 1..(Len(units) - i + 1) :
            /\ cs[j] = Join(SubSeq(units, i, i + n - 1), sep)
            /\ \A m \in 2..n :
                  Len(Join(SubSeq(units, i, i + m - 2), sep)) + Len(sep)
                      + Len(units[i + m - 1]) <= limit
            /\ i + n <= Len(units) =>
                  Len(cs[j]) + Len(sep) + Len(units[i + n]) > limit
            /\ IsGreedyPacking(cs, j + 1, units, i + n, sep, limit)

\* every chunk longer than the limit is one unit
OversizedAreUnits(cs, units, limit) ==
    \A j \in 1..Len(cs) :
        Len(cs[j]) > limit => \E i \in 1..Len(units) : cs[j] = units[i]

RECURSIVE SentencesOfLarge(_, _, _)
\* the second loop of paragraph chunking, as the claim has it: a chunk over
\* the limit gives way to its sentences packed greedily, any other is kept
SentencesOfLarge(cs, out, limit) ==
    /\ cs = <<>> => out = <<>>
    /\ cs # <<>> =>
          IF Len(cs[1]) <= limit
          THEN /\ out # <<>>
               /\ out[1] = cs[1]
               /\ SentencesOfLarge(Tail(cs), Tail(out), limit)
          ELSE \E n \in 1..Len(out) :
                  /\ IsGreedyPacking(SubSeq(out, 1, n), 1, SentenceUnits(cs[1]), 1,
                                     <<" ">>, limit)
                  /\ OversizedAreUnits(SubSeq(out, 1, n), SentenceUnits(cs[1]), limit)
                  /\ SentencesOfLarge(Tail(cs), SubSeq(out, n + 1, Len(out)), limit)

\* C24: paragraph packing and sentence packing are greedy and keep the
\* order.  The units (paragraphs, resp. sentences) are emitted in input
\* order, each exactly once; a unit is appended to the running buffer unless
\* the buffer is not empty and buffer length + separator length + unit
\* length would exceed max_size, and then the buffer is emitted and
\* restarted with that unit; so an emitted chunk longer than max_size is a
\* single unit.
C24_GreedyPacking ==
    /\ pack_pc = "paragraphs" =>
          /\ IsGreedyPacking(pack_chunks, 1, ParagraphUnits(pack_text), 1,
                             <<"\n", "\n">>, pack_max_size)
          /\ OversizedAreUnits(pack_chunks, ParagraphUnits(pack_text), pack_max_size)
          /\ SentencesOfLarge(pack_chunks, pack_ret, pack_max_size)
    /\ pack_pc = "sentences" =>
          /\ IsGreedyPacking(pack_ret, 1, SentenceUnits(pack_text), 1,
                             <<" ">>, pack_max_size)
          /\ OversizedAreUnits(pack_ret, SentenceUnits(pack_text), pack_max_size)

\* C24 witness: paragraph packing put two paragraphs into one chunk and
\* emitted it because the third did not fit
C24_Witness ==
    /\ pack_pc = "paragraphs"
    /\ Len(ParagraphUnits(pack_text)) = 3
    /\ Len(pack_chunks) = 2
    /\ Contains(pack_chunks[1], <<"\n", "\n">>)
    /\ Len(pack_chunks[1]) + 2 + Len(pack_chunks[2]) > pack_max_size

\* the number of chunks among cs[1..j] whose trimmed length reaches the floor
KeptUpTo(cs, j) == Cardinality({i \in 1..j : Len(Strip(cs[i])) >= 50})

\* C25: final validation never drops or truncates a chunk for being too
\* large.  A chunk whose trimmed length is at least 50, one longer than
\* 2000 characters included, is returned as it is apart from trimming, at
\* its position among the chunks that are kept.
C25_LargeChunksKept ==
    \A c \in Calls : Done(c) /\ Squeeze(arg[c]) # <<>> =>
        \A j \in 1..Len(restored_chunks[Frame(c)]) :
            Len(Strip(restored_chunks[Frame(c)][j])) >= 50 =>
                /\ KeptUpTo(restored_chunks[Frame(c)], j) <= Len(ret[c])
                /\ ret[c][KeptUpTo(restored_chunks[Frame(c)], j)] =
                       Strip(restored_chunks[Frame(c)][j])

\* C25 witness: the second chunk handed to validation is longer than 2000
\* characters because a long code block was restored in it, and it is
\* returned
C25_Witness ==
    \E c \in Calls :
        /\ Done(c)
        /\ Len(restored_chunks[Frame(c)]) >= 2
        /\ Len(split_chunks[Frame(c)][2]) < 50
        /\ Len(Strip(restored_chunks[Frame(c)][2])) > 2000
        /\ \E r \in 1..Len(ret[c]) : ret[c][r] = Strip(restored_chunks[Frame(c)][2])

\* invocation c has bound its code-block table and text (line 47)
HasExtracted(c) == pc[c] \in {"parse", "process", "validate", "done"} /\ ~IsBlank(arg[c])

\* invocation c has bound its sections (line 50)
HasParsed(c) == pc[c] \in {"process", "validate", "done"} /\ ~IsBlank(arg[c])

\* C28: concurrent chunk_text calls on one shared SemanticChunker do not
\* interfere.  Under every interleaving of their steps the code-block
\* table, the text without code and the sections that a call holds are at
\* every moment the ones computed from its own text, whatever the other
\* calls have done since, and a finished call has returned what the call
\* returns when run alone.
C28_CallsDoNotInterfere ==
    \A c \in Calls :
        /\ HasExtracted(c) =>
              /\ code_blocks[c] = extract_code_blocks(arg[c]).code_blocks
              /\ text_without_code[c] = extract_code_blocks(arg[c]).text
        /\ HasParsed(c) =>
              sections[c] = parse_heading_structure(text_without_code[c])
        /\ pc[c] \in {"validate", "done"} /\ ~IsBlank(arg[c]) =>
              restored_chunks[c] = merge_code_blocks(split_chunks[c], code_blocks[c])
        /\ Done(c) => ret[c] = chunk_text(arg[c])

\* C28 witness: two calls on different texts are in progress at once, both
\* past code extraction and neither finished, with different code-block
\* tables
C28_Witness ==
    \E a, b \in Calls :
        /\ a # b
        /\ arg[a] # arg[b]
        /\ HasExtracted(a) /\ ~Done(a)
        /\ HasExtracted(b) /\ ~Done(b)
        /\ code_blocks[a] # <<>>
        /\ code_blocks[b] # <<>>
        /\ code_blocks[a] # code_blocks[b]

IsNotEmpty(line) == line # <<>>

\* the trimmed non-blank lines of the text that call c parsed
ContentLines(c) ==
    SelectSeq(Trimmed(Split(text_without_code[Frame(c)], <<"\n">>)), IsNotEmpty)

RECURSIVE LinesText(_, _)
\* the lines lns[i..], each followed by a newline
LinesText(lns, i) ==
    IF i > Len(lns) THEN <<>> ELSE lns[i] \o <<"\n">> \o LinesText(lns, i + 1)

\* the parse result of call c has its level-0 section, if any, in first
\* place only, titled 'Introduction' and holding exactly the non-blank lines
\* that precede the first line for which IsHeading holds
IntroductionIsLeadingContent(c, IsHeading(_)) ==
    LET lns == ContentLines(c)
        heads == {i \in 1..Len(lns) : IsHeading(lns[i])}
        first == IF heads = {} THEN Len(lns) + 1
                 ELSE CHOOSE i \in heads : \A j \in heads : i <= j
        secs == sections[Frame(c)]
        zero == {k \in 1..Len(secs) : secs[k].level = 0}
    IN  /\ zero \subseteq {1}
        /\ (first > 1) <=> (zero = {1})
        /\ zero = {1} =>
              /\ secs[1].title = <<"I", "n", "t", "r", "o", "d", "u", "c",
                                   "t", "i", "o", "n">>
              /\ secs[1].content = LinesText(SubSeq(lns, 1, first - 1), 1)

\* C26 as stated: all non-blank content preceding the first heading is
\* collected into one section of level 0 titled 'Introduction'; the parse
\* result has at most one level-0 section, in first place, and no content
\* that follows a heading (a line of one or more '#' and whitespace) is
\* assigned to it.
C26_IntroductionBeforeFirstHeading ==
    \A c \in Calls : pc[c] \in {"process", "validate", "done"} /\ ~IsBlank(arg[c]) =>
        IntroductionIsLeadingContent(c, IsMarkdownHeading)

\* what the code does: the same with the lines that start with '##' in
\* the place of the headings
C26_IntroductionBeforeFirstDoubleHash ==
    \A c \in Calls : pc[c] \in {"process", "validate", "done"} /\ ~IsBlank(arg[c]) =>
        IntroductionIsLeadingContent(c, IsHeadingLine)

\* a parse result whose level-0 section holds lines that precede the first
\* '##' line, with headed sections after it
C26_LeadingContentParsed ==
    \E c \in Calls :
        /\ pc[c] \in {"process", "validate", "done"}
        /\ Len(sections[Frame(c)]) >= 2
        /\ sections[Frame(c)][1].level = 0

RECURSIVE ChunksBefore(_, _)
\* the number of chunks that the sections before section k produced
ChunksBefore(per_section, k) ==
    IF k <= 1 THEN 0
    ELSE Len(per_section[k - 1]) + ChunksBefore(per_section, k - 1)

\* the positions, in the list handed to validation, of the chunks that
\* section k of call c produced
ChunksOfSection(c, k) ==
    LET before == ChunksBefore(section_chunks[Frame(c)], k)
    IN  (before + 1)..(before + Len(section_chunks[Frame(c)][k]))

\* those of them that validation keeps
ReturnedOfSection(c, k) ==
    {j \in ChunksOfSection(c, k) : Len(Strip(restored_chunks[Frame(c)][j])) >= 50}

\* the heading line of a headed section as it reads in the input text
HeadingOf(c, k) ==
    RestoreChunk(FirstLine(sections[Frame(c)][k].content), code_blocks[Frame(c)], 1)

\* every chunk comes from one section: the chunks of call c are those of
\* its sections in order, and the chunks of a section lie one after the
\* other in the content of that section
NoChunkMixesSections(c) ==
    /\ Len(section_chunks[Frame(c)]) = Len(sections[Frame(c)])
    /\ Len(restored_chunks[Frame(c)]) =
           ChunksBefore(section_chunks[Frame(c)], Len(sections[Frame(c)]) + 1)
    /\ \A k \in 1..Len(sections[Frame(c)]) :
          /\ EmbedsFrom(section_chunks[Frame(c)][k], 1,
                        Squeeze(sections[Frame(c)][k].content), 1)
          /\ \A j \in ChunksOfSection(c, k) :
                split_chunks[Frame(c)][j] =
                    section_chunks[Frame(c)][k][j - ChunksBefore(section_chunks[Frame(c)], k)]

\* C27 as stated: for every headed section that contributes a chunk to the
\* result, the first returned chunk of the section starts with the
\* section's heading line, and no returned chunk holds text of two
\* sections.
C27_FirstChunkStartsWithHeading ==
    \A c \in Calls : Done(c) /\ ~IsBlank(arg[c]) =>
        /\ NoChunkMixesSections(c)
        /\ \A k \in 1..Len(sections[Frame(c)]) :
              sections[Frame(c)][k].level # 0 /\ ReturnedOfSection(c, k) # {} =>
                  StartsWith(restored_chunks[Frame(c)][Min(ReturnedOfSection(c, k))],
                             HeadingOf(c, k))

\* what the code does: the first chunk that splitting produces for a headed
\* section starts with the heading line, whether or not it is returned, and
\* no chunk holds text of two sections
C27_FirstSplitChunkStartsWithHeading ==
    \A c \in Calls : Done(c) /\ ~IsBlank(arg[c]) =>
        /\ NoChunkMixesSections(c)
        /\ \A k \in 1..Len(sections[Frame(c)]) :
              sections[Frame(c)][k].level # 0 /\ ChunksOfSection(c, k) # {} =>
                  StartsWith(restored_chunks[Frame(c)][Min(ChunksOfSection(c, k))],
                             HeadingOf(c, k))

\* a headed section whose first chunk is the heading alone, dropped by
\* validation, while later chunks of the section are returned
C27_HeadingDropped ==
    \E c \in Calls :
        /\ Done(c)
        /\ \E k \in 1..Len(sections[Frame(c)]) :
              /\ sections[Frame(c)][k].level # 0
              /\ ReturnedOfSection(c, k) # {}
              /\ Min(ChunksOfSection(c, k)) \notin ReturnedOfSection(c, k)

(***************************************************************************)
(* scripts/ingest_wp_codex.py: ingest(section, clear_existing)             *)
(***************************************************************************)

\* line 108: batch_size = 100
batch_size == 100

\* the numbers of chunks that process_documentation may have produced
TotalChunks == {0, 1, 100, 101, 250}

\* a document of the collection: its id and the run of ingest that added it
Stored(ids_, run) == {[id |-> i, run |-> run] : i \in ids_}

\* what the collection may hold when ingest starts; the ids of a previous
\* run may be ids of this run again
StoredSets == {Stored({}, "previous"), Stored({1}, "previous"), Stored({1, 150, 999}, "previous")}

\* what an external call does: it returns or it raises
Outcomes == {"returns", "raises"}

\* processed_data["ids"] for n chunks
ChunkIds(n) == [i \in 1..n |-> i]

\* ingest has just been called; the collection does not exist yet, or it
\* exists and holds what earlier runs stored
InitIngest ==
    /\ ChunkerIdle /\ CleanerIdle /\ ClientIdle /\ FactoryIdle /\ PackIdle
    /\ ingest_pc = "create_collection"
    /\ clear_existing \in BOOLEAN
    /\ \/ collection = [exists |-> FALSE, documents |-> {}]
       \/ \E stored \in StoredSets : collection = [exists |-> TRUE, documents |-> stored]
    /\ stored_before = collection.documents
    /\ processed_data = [total_chunks |-> 0, ids |-> <<>>]
    /\ batch_start = 0
    /\ batches_added = 0
    /\ ingest_error = "none"

\* the exception leaves ingest
IngestRaises(from) ==
    /\ ingest_pc' = "raised"
    /\ ingest_error' = from

\* line 90, lines 29-49: the collection is fetched, and created when that
\* fails; an error of the creation other than 'already exists' is raised
CreateCollection ==
    /\ ingest_pc = "create_collection"
    /\ \E outcome \in Outcomes :
          IF outcome = "returns"
          THEN /\ collection' = [collection EXCEPT !.exists = TRUE]
               /\ ingest_pc' = "clear_collection"
               /\ UNCHANGED ingest_error
          ELSE /\ ~collection.exists
               /\ IngestRaises("create_collection")
               /\ UNCHANGED collection
    /\ UNCHANGED <<clear_existing, stored_before, processed_data, batch_start,
                   batches_added,
                   chunker_vars, cleaner_vars, client_vars, factory_vars, pack_vars>>

\* mutant: the step passes and the documents stay
LeaveCollection ==
    /\ ingest_pc = "clear_collection"
    /\ clear_existing
    /\ ingest_pc' = "process_documentation"
    /\ UNCHANGED <<collection, ingest_error, clear_existing, stored_before,
                   processed_data, batch_start, batches_added,
                   chunker_vars, cleaner_vars, client_vars, factory_vars, pack_vars>>

\* lines 93-94, 51-71: clear_collection() deletes every document by its id;
\* an exception of a call to the server is printed and raised again
ClearCollection ==
    /\ ingest_pc = "clear_collection"
    /\ clear_existing
    /\ \E outcome \in Outcomes :
          IF outcome = "returns"
          THEN /\ collection' = [collection EXCEPT !.documents = {}]
               /\ ingest_pc' = "process_documentation"
               /\ UNCHANGED ingest_error
          ELSE /\ IngestRaises("clear_collection")
               /\ UNCHANGED collection
    /\ UNCHANGED <<clear_existing, stored_before, processed_data, batch_start,
                   batches_added,
                   chunker_vars, cleaner_vars, client_vars, factory_vars, pack_vars>>

\* lines 95-96: clear_existing is false
SkipClearing ==
    /\ ingest_pc = "clear_collection"
    /\ ~clear_existing
    /\ ingest_pc' = "process_documentation"
    /\ UNCHANGED <<collection, ingest_error, clear_existing, stored_before,
                   processed_data, batch_start, batches_added,
                   chunker_vars, cleaner_vars, client_vars, factory_vars, pack_vars>>

\* lines 99-109: the client is made and process_documentation(section) is
\* awaited; fetching, processing or embedding may raise
ProcessDocumentation ==
    /\ ingest_pc = "process_documentation"
    /\ \/ /\ IngestRaises("process_documentation")
          /\ UNCHANGED <<processed_data, batch_start>>
       \/ \E total_chunks \in TotalChunks :
             /\ processed_data' = [total_chunks |-> total_chunks,
                                   ids |-> ChunkIds(total_chunks)]
             /\ batch_start' = 0
             /\ ingest_pc' = "add_documents"
             /\ UNCHANGED ingest_error
    /\ UNCHANGED <<clear_existing, collection, stored_before, batches_added,
                   chunker_vars, cleaner_vars, client_vars, factory_vars, pack_vars>>

\* the ids of ids_ that the collection does not hold yet
NewIds(ids_) == {i \in ids_ : \A d \in collection.documents : d.id # i}

\* lines 111-131: one iteration of the loop: the batch [i, end_idx) is
\* added; the server keeps the documents it has under an id of the batch,
\* or it refuses the batch; an exception is printed and raised again
AddBatch ==
    /\ ingest_pc = "add_documents"
    /\ batch_start < processed_data.total_chunks
    /\ LET i == batch_start
           end_idx == IF i + batch_size < processed_data.total_chunks
                      THEN i + batch_size ELSE processed_data.total_chunks
           batch_ids == {processed_data.ids[j] : j \in (i + 1)..end_idx}
       IN  \E outcome \in Outcomes :
              IF outcome = "returns"
              THEN /\ collection' =
                          [collection EXCEPT !.documents =
                               @ \cup Stored(NewIds(batch_ids), "current")]
                   /\ batches_added' = batches_added + 1
                   /\ batch_start' = i + batch_size
                   /\ UNCHANGED <<ingest_pc, ingest_error>>
              ELSE /\ IngestRaises("add_documents")
                   /\ UNCHANGED <<collection, batches_added, batch_start>>
    /\ UNCHANGED <<clear_existing, stored_before, processed_data,
                   chunker_vars, cleaner_vars, client_vars, factory_vars, pack_vars>>

\* lines 133-136: the loop is over and ingest returns
IngestReturns ==
    /\ ingest_pc = "add_documents"
    /\ batch_start >= processed_data.total_chunks
    /\ ingest_pc' = "returned"
    /\ UNCHANGED <<clear_existing, collection, stored_before, processed_data,
                   batch_start, batches_added, ingest_error,
                   chunker_vars, cleaner_vars, client_vars, factory_vars, pack_vars>>

NextIngest ==
    \/ CreateCollection
    \/ ClearCollection
    \/ SkipClearing
    \/ ProcessDocumentation
    \/ AddBatch
    \/ IngestReturns

SpecIngest == InitIngest /\ [][NextIngest]_vars

\* the ids of the batches that were added
AddedIds ==
    {processed_data.ids[j] : j \in 1..Min({batches_added * batch_size,
                                           processed_data.total_chunks})}

\* ingest is past clear_collection(): it is fetching, adding or has returned,
\* or it has raised from one of these steps
PastClearing ==
    \/ ingest_pc \in {"process_documentation", "add_documents", "returned"}
    \/ ingest_pc = "raised" /\ ingest_error \in {"process_documentation", "add_documents"}

\* C29: in ingest with clear_existing=True the existing documents are
\* deleted before any documentation is fetched, processed or embedded, and
\* nothing is restored on failure: until the collection is cleared nothing
\* has been processed; from then on, also after a raise of fetching,
\* processing or a batch insert, no previously stored document is in the
\* collection, which holds the batches added so far and nothing else.
C29_ClearedBeforeFetching ==
    clear_existing =>
        /\ ingest_pc \in {"create_collection", "clear_collection"} =>
              /\ processed_data = [total_chunks |-> 0, ids |-> <<>>]
              /\ collection.documents = stored_before
        /\ PastClearing =>
              /\ collection.documents \cap stored_before = {}
              /\ collection.documents = Stored(AddedIds, "current")

\* C29 witness: a collection that held documents was cleared, one batch was
\* added and the next insert raised
C29_Witness ==
    /\ clear_existing
    /\ stored_before # {}
    /\ ingest_pc = "raised"
    /\ ingest_error = "add_documents"
    /\ batches_added >= 1
    /\ collection.documents # {}

RECURSIVE Glue(_, _)
\* the chunks cs[i..] written one after the other
Glue(cs, i) == IF i > Len(cs) THEN <<>> ELSE cs[i] \o Glue(cs, i + 1)

\* the text has some token that reads like the start of a placeholder
HasPlaceholderToken(text) ==
    \/ Contains(text, <<"_", "_", "C", "O", "D", "E", "_", "B", "L", "O", "C", "K", "_">>)
    \/ Contains(text, <<"_", "_", "I", "N", "L", "I", "N", "E", "_", "C", "O", "D", "E", "_">>)

ReachesFloor(chunk) == Len(Strip(chunk)) >= 50

\* C30: splitting loses and duplicates no content.  For an input without a
\* literal placeholder-like token, the chunks handed to final validation,
\* written one after the other with all whitespace deleted, are the input
\* with all whitespace deleted; the result has the same content less that
\* of the chunks shorter than 50 characters.
C30_NothingLostOrDuplicated ==
    \A c \in Calls : Done(c) /\ ~IsBlank(arg[c]) /\ ~HasPlaceholderToken(arg[c]) =>
        /\ Squeeze(Glue(restored_chunks[Frame(c)], 1)) = Squeeze(arg[c])
        /\ Squeeze(Glue(ret[c], 1)) =
               Squeeze(Glue(SelectSeq(restored_chunks[Frame(c)], ReachesFloor), 1))

\* C30 witness: a text with code spans under a heading was split at
\* sentence ends into several chunks, one of which is below the size floor
\* and missing from the result
C30_Witness ==
    \E c \in Calls :
        /\ Done(c)
        /\ ~HasPlaceholderToken(arg[c])
        /\ code_blocks[Frame(c)] # <<>>
        /\ Len(ret[c]) >= 3
        /\ Len(ret[c]) < Len(restored_chunks[Frame(c)])
        /\ \E k \in 1..Len(section_chunks[Frame(c)]) :
              /\ sections[Frame(c)][k].level # 0
              /\ Len(section_chunks[Frame(c)][k]) >= 2


=============================================================================
